---- MODULE Spec2Model ----
(***************************************************************************)
(* Model of the review/chat task pipeline of the code-review application:  *)
(* web/tasks.py (run_pr_review, handle_chat_response_v2, the repository    *)
(* snapshot helpers), web/views.py (_mark_stale_review_runs),              *)
(* web/services.py (queue_review), web/github.py (get_installation_token)  *)
(* and web/opencode_client.py (run_opencode).                              *)
(*                                                                         *)
(* Text values (comment bodies, error messages, API keys) are sequences of *)
(* tokens; " " is a whitespace token, so that str.strip() has something to *)
(* remove.  Times are counted in hours.                                    *)
(*                                                                         *)
(* The model follows one ReviewRun from queue_review on.  The rows of      *)
(* other runs are neither read nor written by this run's task, and the     *)
(* UPDATE statements of the sweep act on each row on its own.              *)
(*                                                                         *)
(* Failures are those of the error taxonomy of the pipeline: the calls to  *)
(* GitHub, git, the zipball download and the agent subprocess may raise,   *)
(* and credential resolution raises by itself; a write into the temporary  *)
(* directory may fail too.  Database writes succeed, but for the one that  *)
(* stores the reply of the chat task, the last statement of its try block. *)
(*                                                                         *)
(* get_installation_token and run_opencode are modelled on their own, each *)
(* under a specification that draws the outcomes of its environment (the   *)
(* HTTP responses, the output of the process, the files and variables of   *)
(* the machine) from bounded sets.  A line of stdout is a record of what   *)
(* run_opencode reads from it; U+2028 is a token of a text.                *)
(*                                                                         *)
(* The same holds for fetch_pull_request_diff, the zipball extraction, the *)
(* file index, the diff excerpt of a review, the conversation transcript,  *)
(* a sweep of an arbitrary row, a webhook delivery, the reaction calls,    *)
(* the data home of run_opencode and the listing of the files of a pull    *)
(* request: each has its own variable and its own                          *)
(* specification.  Budgets of the source (bytes, paths, characters,        *)
(* messages) are scaled down to small numbers.                             *)
(***************************************************************************)
EXTENDS Integers, Sequences, FiniteSets, TLC

VARIABLES
    now,              \* the wall clock (timezone.now()), in hours
    review_run,       \* the ReviewRun row
    review_comments,  \* the ReviewComment rows of the run, in creation order
    issue_comment,    \* GitHub: the issue comment the task posted on the pull request
    task,             \* the run_pr_review execution: position, locals, record of its calls
    snap_in,          \* arguments and environment of a _prepare_repo_snapshot call
    snap_out,         \* what that call returned
    chat_messages,    \* the ChatMessage rows of the pull request, in creation order
    pr_comments,      \* GitHub: the comments the chat task posted on the pull request
    chat,             \* the chat task execution: position, locals, record of its calls
    tmp_dirs,         \* the directories that exist under the system's temporary directory
    token_call,       \* a get_installation_token call: its posts' outcomes, position, result
    oc_run,           \* a run_opencode call after its process exited: output, exit status, outcome
    oc_cmd,           \* a run_opencode call up to the start of its process: inputs, executable, args
    diff_fetch,       \* a fetch_pull_request_diff call: the responses it gets, position, result
    zip_extract,      \* an _extract_zipball_to_repo_dir call: the archive, position, files written
    repo_index,       \* a _render_repo_index_markdown call: the tree, the paths collected, the lines
    review_ctx,       \* the diff of a review on its way to the agent: text, excerpt, note, prompt
    transcript,       \* a _render_conversation_markdown call: the table, the triggering row, the lines
    sweep_call,       \* a _mark_stale_review_runs call: the row, the owner, the time, the row after
    webhook,          \* one webhook delivery and what the view did with it
    reaction,         \* reactions on the server and the add_reaction calls made
    oc_auth,          \* one run_opencode call and its private data home
    pr_files          \* one list_pull_request_files call

review_vars == <<now, review_run, review_comments, issue_comment, task>>
snap_vars == <<snap_in, snap_out>>
chat_vars == <<chat_messages, pr_comments, chat>>
pipeline_vars == <<review_vars, snap_vars, chat_vars, tmp_dirs>>
lib_vars == <<token_call, oc_run, oc_cmd, diff_fetch, zip_extract, repo_index, review_ctx, transcript, sweep_call, webhook, reaction, oc_auth, pr_files>>
vars == <<pipeline_vars, lib_vars>>

----------------------------------------------------------------------------
(* Bounds *)

MaxTime == 3

----------------------------------------------------------------------------
(* Values *)

\* a NULL timestamp
NoTime == -1
NoOwner == "NoOwner"
Users == {"alice"}

STATUS_QUEUED == "queued"
STATUS_RUNNING == "running"
STATUS_DONE == "done"
STATUS_FAILED == "failed"

\* timedelta(hours=1) and timedelta(hours=2) of _mark_stale_review_runs
StaleQueuedHours == 1
StaleRunningHours == 2

IsWhitespace(tok) == tok \in {" ", "\n", "\t"}

RECURSIVE LStrip(_)
LStrip(s) ==
    IF s = <<>> THEN <<>>
    ELSE IF IsWhitespace(Head(s)) THEN LStrip(Tail(s)) ELSE s

RECURSIVE RStrip(_)
RStrip(s) ==
    IF s = <<>> THEN <<>>
    ELSE IF IsWhitespace(s[Len(s)]) THEN RStrip(SubSeq(s, 1, Len(s) - 1)) ELSE s

\* str.strip()
Strip(s) == RStrip(LStrip(s))

\* str.lower(), on the tokens the model uses
LowerTok(tok) ==
    CASE tok = "Invalid" -> "invalid"
      [] tok = "API" -> "api"
      [] tok = "Key" -> "key"
      [] OTHER -> tok

Lower(s) == [i \in 1..Len(s) |-> LowerTok(s[i])]

\* `sub in s` for strings
Contains(s, sub) ==
    \E i \in 1..(Len(s) - Len(sub) + 1) : SubSeq(s, i, i + Len(sub) - 1) = sub

_ZAI_TOKEN_ERROR_SUBSTRINGS ==
    { <<"token", " ", "expired", " ", "or", " ", "incorrect">>,
      <<"invalid", " ", "api", " ", "key">>,
      <<"invalid", " ", "apikey">> }

_looks_like_zai_auth_error(message) ==
    LET normalized == Lower(Strip(message))
    IN  \E substr \in _ZAI_TOKEN_ERROR_SUBSTRINGS : Contains(normalized, substr)

----------------------------------------------------------------------------
(* Repository snapshot: _prepare_repo_snapshot and its two strategies.      *)
(* The environment of a call is what git and the zipball download do:       *)
(* git.fail_at names the first git step that fails ("none": all succeed),   *)
(* git.stderr its stderr; zip.fail_at / zip.msg likewise for the zipball.   *)

RepoFullName == <<"alice-org/repo">>
HeadShas == { <<>>, <<"deadbeef">> }

\* the working tree of the repository at the head SHA
Tree == {"README.md", "src/app.py"}

ErrTexts == { <<>>, <<" ">>, <<"fatal:", " ", "auth">> }
ZipErrTexts == { <<>>, <<"404">>, <<"bad zip", " ">> }

GitOutcomes ==
    { [fail_at |-> "none", stderr |-> <<>>], [fail_at |-> "which", stderr |-> <<>>] }
    \cup [fail_at : {"init", "remote", "fetch", "checkout"}, stderr : ErrTexts]

ZipOutcomes ==
    { [fail_at |-> "none", msg |-> <<>>] }
    \cup [fail_at : {"download", "extract"}, msg : ZipErrTexts]

\* What is in repo_dir when git step `step` was the last to run and failed or
\* not (a failed init leaves nothing, a failed checkout a part of the tree).
GitFilesAfter(step, failed) ==
    CASE step = "init" -> IF failed THEN {} ELSE {".git"}
      [] step \in {"remote", "fetch"} -> {".git"}
      [] step = "checkout" -> IF failed THEN {".git", "README.md"} ELSE {".git"} \cup Tree

\* _git_checkout_repo_at_sha: [raised, error, files]
_git_checkout_repo_at_sha(git) ==
    IF git.fail_at = "which"
    THEN [raised |-> TRUE, error |-> <<"git is not installed or not on PATH">>, files |-> {}]
    ELSE IF git.fail_at # "none"
    THEN [raised |-> TRUE,
          error |-> IF Strip(git.stderr) # <<>> THEN Strip(git.stderr)
                    ELSE <<"git failed: ", git.fail_at>>,
          files |-> GitFilesAfter(git.fail_at, TRUE)]
    ELSE [raised |-> FALSE, error |-> <<>>,
          files |-> GitFilesAfter("checkout", FALSE) \ {".git"}]

\* _download_and_extract_zipball into the files already in repo_dir
_download_and_extract_zipball(zip, files) ==
    CASE zip.fail_at = "download" -> [raised |-> TRUE, error |-> zip.msg, files |-> files]
      [] zip.fail_at = "extract" -> [raised |-> TRUE, error |-> zip.msg, files |-> files]
      [] OTHER -> [raised |-> FALSE, error |-> <<>>, files |-> files \cup Tree]

\* the directory is used as git left it
RmtreeAndMkdir_KeepsFiles(files) == files
\* shutil.rmtree(repo_dir, ignore_errors=True); repo_dir.mkdir(...)
RmtreeAndMkdir(files) == {}

SkippedNote == [kind |-> "skipped"]
FailedSummary(repo, ref, error) ==
    [kind |-> "failed", repo |-> repo, ref |-> ref, error |-> error]
OkSummary(repo, ref, method, files) ==
    [kind |-> "ok", repo |-> repo, ref |-> ref, method |-> method,
     file_count |-> Cardinality(files)]

\* `a` alone: a blank message is not replaced
Or_NoFallback(a, b) == a

\* `a or b` on strings
Or(a, b) == IF a # <<>> THEN a ELSE b

\* A returned directory: None, or the Path with the files under it.
NoDir == [exists |-> FALSE, files |-> {}]
Dir(files) == [exists |-> TRUE, files |-> files]

\* _prepare_repo_snapshot: [raised and error (an exception leaves the function),
\* repo_dir, md (the summary), attempts (the strategies tried, in order)]
_prepare_repo_snapshot(repo_full_name, head_sha, git, zip) ==
    IF head_sha = <<>>
    THEN [raised |-> FALSE, error |-> <<>>, repo_dir |-> NoDir, md |-> SkippedNote,
          attempts |-> <<>>]
    ELSE
      LET g == _git_checkout_repo_at_sha(git)
      IN  IF ~g.raised
          THEN [raised |-> FALSE, error |-> <<>>, repo_dir |-> Dir(g.files),
                md |-> OkSummary(repo_full_name, head_sha, "git (shallow fetch depth=1)", g.files),
                attempts |-> <<"git">>]
          ELSE
            LET error == Or(Strip(g.error), <<"unknown error">>)
                z == _download_and_extract_zipball(zip, RmtreeAndMkdir(g.files))
            IN  IF ~z.raised
                THEN [raised |-> FALSE, error |-> <<>>, repo_dir |-> Dir(z.files),
                      md |-> OkSummary(repo_full_name, head_sha, "zipball (GitHub API)", z.files),
                      attempts |-> <<"git", "zipball">>]
                ELSE [raised |-> FALSE, error |-> <<>>, repo_dir |-> NoDir,
                      md |-> FailedSummary(repo_full_name, head_sha,
                                           Or(Strip(z.error), error)),
                      attempts |-> <<"git", "zipball">>]

----------------------------------------------------------------------------
(* The review task: run_pr_review, one action per step of the function.     *)

placeholder_body == <<"Reviewing this PR now.">>

\* the body of the failure notice built in the except block
FailureBody(error_text) ==
    <<"Review failed.", "\n", "Error:">> \o error_text \o <<"\n", "Troubleshooting">>

ZaiRejectedText == <<"ZAI API key rejected (token expired or incorrect).">>
NoOwnerText == <<"This installation is not associated with a user-owned GitHub App.">>
MissingKeyText == <<"Missing ZAI API key for this user.">>

\* str(e) of the exceptions the external calls raise
ExcTexts == { <<" ">>, <<"Invalid", " ", "API", " ", "Key", "\n">> }

\* what run_opencode returns: stripped, non-empty text (opencode_client.py)
AgentTexts == { <<"LGTM">>, <<"Fix", " ", "auth.py">> }

\* error_text of the except block
ErrorText(e) ==
    LET error_text == Or(Strip(e), <<"Unknown error">>)
    IN  IF _looks_like_zai_auth_error(error_text) THEN ZaiRejectedText ELSE error_text

\* The UserApiKey row of the owner for provider zai (unique per user and provider).
NoKeyRow == [exists |-> FALSE, is_active |-> FALSE, api_key |-> <<>>]
KeyRows ==
    { NoKeyRow,
      [exists |-> TRUE, is_active |-> FALSE, api_key |-> <<"k0">>],
      [exists |-> TRUE, is_active |-> TRUE, api_key |-> <<" ">>],
      [exists |-> TRUE, is_active |-> TRUE, api_key |-> <<" ", "k1", "\n">>] }

\* the key of the row as stored: inactive rows count, nothing is stripped
ResolveApiKey_AsStored(row) ==
    IF row.exists THEN row.api_key ELSE <<>>

\* api_key = (first active row's api_key or "").strip()
ResolveApiKey(row) ==
    IF row.exists /\ row.is_active THEN Strip(row.api_key) ELSE <<>>

\* context_files handed to run_opencode
ContextFiles(repo_dir) ==
    <<"pull_request.diff", "repo_snapshot.md">>
    \o (IF repo_dir.exists THEN <<"repo_index.md">> ELSE <<>>)

\* the record of the run_opencode call: its arguments and the text it returned
\* the auth argument of run_opencode: None, or entries for auth.json
NoAuth == [given |-> FALSE, provider |-> "", type |-> "", key |-> <<>>]
\* env={"ZAI_API_KEY": api_key}
AgentEnv(api_key) == { [name |-> "ZAI_API_KEY", value |-> api_key] }
\* the calls pass no auth argument: its default None
AgentAuthArgument == NoAuth
NoAgentCall ==
    [made |-> FALSE, cwd |-> NoDir, files |-> <<>>, api_key |-> <<>>, env |-> {},
     auth |-> NoAuth, text |-> <<>>]

\* the comment id post_issue_comment returns
PlaceholderCommentId == "comment-1"
NoCommentId == "none"
NoComment == [posted |-> FALSE, id |-> NoCommentId, body |-> <<>>]

NoRun ==
    [exists |-> FALSE, owner |-> NoOwner, status |-> "none", created_at |-> NoTime,
     started_at |-> NoTime, finished_at |-> NoTime,
     summary |-> <<>>, error_message |-> <<>>]

\* ReviewRun.created_at, which the sweep filters on: the time of creation
\* (models.py declares no such field on ReviewRun; the created_at of the
\* other models is auto_now_add)
ReviewRunCreatedAt(t) == t

\* ReviewRun.objects.create(pull_request=..., head_sha=..., status=queued)
NewReviewRun(owner, t) ==
    [NoRun EXCEPT !.exists = TRUE, !.owner = owner, !.status = STATUS_QUEUED,
                  !.created_at = ReviewRunCreatedAt(t)]

\* tempfile.TemporaryDirectory(prefix=...): mkdtemp makes a directory whose
\* name (the prefix and a random suffix) does not exist yet; leaving the with
\* block removes it, by return or by exception.
TmpSuffixes == {"k3x0", "p9qz"}
NoTmpDir == [prefix |-> "", suffix |-> ""]
TmpNames(prefix) == { [prefix |-> prefix, suffix |-> sfx] : sfx \in TmpSuffixes }
Mkdtemp(dirs, prefix) == TmpNames(prefix) \ dirs

\* the directory kept although the with block was left by an exception
CleanupOnRaise_Leak(dirs, dir) == dirs

\* TemporaryDirectory.__exit__ after an exception
CleanupOnRaise(dirs, dir) == dirs \ {dir}

\* TemporaryDirectory.__exit__ at the end of the with block
CleanupOnReturn(dirs, dir) == dirs \ {dir}

ReviewTmpPrefix == "codereview-ai-"
ChatTmpPrefix == "codereview-ai-chat-"

\* pc "none": no task message yet; "queued": the message waits for a worker
NoTask ==
    [pc |-> "none", caught |-> FALSE, error |-> <<>>, escaped |-> FALSE,
     key_row |-> NoKeyRow, api_key |-> <<>>, head_sha |-> <<>>, repo_dir |-> NoDir,
     snapshot |-> "none", calls |-> {}, agent |-> NoAgentCall, summary |-> <<>>,
     notice |-> "none", tmpdir |-> NoTmpDir]

\* The locals of the try block that the except block never reads are dropped
\* when control leaves the try block, and all locals when the function ends;
\* key_row (the key row read), snapshot (whether _prepare_repo_snapshot returned
\* a directory), calls (the fetches made), agent, notice (how the edit of the
\* except block went) and tmpdir (the temporary directory made) record what the
\* execution did.
LeaveTry(t) == [t EXCEPT !.api_key = <<>>, !.head_sha = <<>>, !.repo_dir = NoDir,
                         !.summary = <<>>]
Return(t) == [LeaveTry(t) EXCEPT !.pc = "ended", !.error = <<>>]

\* an exception raised inside the try block: control goes to the except block
Caught(e, call) ==
    task' = [LeaveTry(task) EXCEPT !.pc = "h_edit", !.caught = TRUE,
                                   !.error = e, !.calls = @ \cup call]

\* an exception that leaves run_pr_review
Escapes ==
    task' = [Return(task) EXCEPT !.escaped = TRUE]

\* run_pr_review returns
Returns ==
    task' = Return(task)

Goto(pc, call) ==
    task' = [task EXCEPT !.pc = pc, !.calls = @ \cup call]

\* services.queue_review: create the row, enqueue the task
QueueReview ==
    /\ ~review_run.exists
    /\ \E owner \in Users \cup {NoOwner} :
          review_run' = NewReviewRun(owner, now)
    /\ task' = [NoTask EXCEPT !.pc = "queued"]
    /\ UNCHANGED <<now, review_comments, issue_comment, snap_vars, tmp_dirs, chat_vars, lib_vars>>

\* lines 38-44: load the run, set it running
StartTask ==
    /\ task.pc = "queued"
    /\ review_run' = [review_run EXCEPT !.status = STATUS_RUNNING,
                                        !.started_at = now]
    /\ Goto("placeholder", {})
    /\ UNCHANGED <<now, review_comments, issue_comment, snap_vars, tmp_dirs, chat_vars, lib_vars>>

\* lines 49-58: auth_for_installation and post_issue_comment, outside the try
PostPlaceholder ==
    /\ task.pc = "placeholder"
    /\ \/ /\ issue_comment' = [posted |-> TRUE, id |-> PlaceholderCommentId,
                               body |-> placeholder_body]
          /\ Goto("comment", {})
       \/ /\ Escapes
          /\ UNCHANGED issue_comment
    /\ UNCHANGED <<now, review_run, review_comments, snap_vars, tmp_dirs, chat_vars, lib_vars>>

\* lines 67-71: ReviewComment.objects.create
CreateReviewComment ==
    /\ task.pc = "comment"
    /\ review_comments' =
          Append(review_comments,
                 [body |-> placeholder_body, github_comment_id |-> issue_comment.id])
    /\ Goto("credential", {})
    /\ UNCHANGED <<now, review_run, issue_comment, snap_vars, tmp_dirs, chat_vars, lib_vars>>

\* lines 74-93: the owner and the owner's stored provider key
ResolveCredential ==
    /\ task.pc = "credential"
    /\ \E row \in KeyRows :
          IF review_run.owner = NoOwner
          THEN Caught(NoOwnerText, {})
          ELSE IF ResolveApiKey(row) = <<>>
          THEN task' = [task EXCEPT !.pc = "h_edit", !.caught = TRUE,
                                    !.error = MissingKeyText, !.key_row = row]
          ELSE task' = [task EXCEPT !.pc = "token", !.key_row = row,
                                    !.api_key = ResolveApiKey(row)]
    /\ UNCHANGED <<now, review_run, review_comments, issue_comment, snap_vars, tmp_dirs, chat_vars, lib_vars>>

\* line 95: github.get_installation_token
FetchToken ==
    /\ task.pc = "token"
    /\ \/ Goto("pr_json", {"token"})
       \/ \E e \in ExcTexts : Caught(e, {"token"})
    /\ UNCHANGED <<now, review_run, review_comments, issue_comment, snap_vars, tmp_dirs, chat_vars, lib_vars>>

\* lines 96-103: github.fetch_pull_request_json, head_sha
FetchPrJson ==
    /\ task.pc = "pr_json"
    /\ \/ \E sha \in HeadShas :
             task' = [task EXCEPT !.pc = "diff", !.head_sha = Strip(sha),
                                  !.calls = @ \cup {"pr_json"}]
       \/ \E e \in ExcTexts : Caught(e, {"pr_json"})
    /\ UNCHANGED <<now, review_run, review_comments, issue_comment, snap_vars, tmp_dirs, chat_vars, lib_vars>>

\* lines 105-111: github.fetch_pull_request_diff
FetchDiff ==
    /\ task.pc = "diff"
    /\ \/ Goto("snapshot", {"diff"})
       \/ \E e \in ExcTexts : Caught(e, {"diff"})
    /\ UNCHANGED <<now, review_run, review_comments, issue_comment, snap_vars, tmp_dirs, chat_vars, lib_vars>>

\* str(e) of the OSError of a failed write_text into the temporary directory
WriteErrTexts == { <<"[Errno 28] No space left on device">> }

\* the snapshot step with a missing directory treated as an error
PrepareSnapshot_NoDirIsFatal ==
    /\ task.pc = "snapshot"
    /\ \E dir \in Mkdtemp(tmp_dirs, ReviewTmpPrefix), git \in GitOutcomes, zip \in ZipOutcomes :
          LET snap == _prepare_repo_snapshot(RepoFullName, task.head_sha, git, zip)
          IN  IF snap.repo_dir.exists
              THEN /\ task' = [task EXCEPT !.pc = "agent", !.repo_dir = snap.repo_dir,
                                           !.snapshot = "dir", !.tmpdir = dir,
                                           !.calls = @ \cup {"snapshot"}]
                   /\ tmp_dirs' = tmp_dirs \cup {dir}
              ELSE /\ task' = [LeaveTry(task) EXCEPT !.pc = "h_edit", !.caught = TRUE,
                                                     !.error = <<"no snapshot">>,
                                                     !.snapshot = "nodir", !.tmpdir = dir,
                                                     !.calls = @ \cup {"snapshot"}]
                   /\ tmp_dirs' = CleanupOnRaise(tmp_dirs \cup {dir}, dir)
    /\ UNCHANGED <<now, review_run, review_comments, issue_comment, snap_vars, chat_vars, lib_vars>>

\* lines 173-184: the temporary directory is made, the diff file written,
\* _prepare_repo_snapshot called, repo_snapshot.md written; a failed write
\* leaves the with block by its exception
PrepareSnapshot ==
    /\ task.pc = "snapshot"
    /\ \E dir \in Mkdtemp(tmp_dirs, ReviewTmpPrefix) :
          \/ \E git \in GitOutcomes, zip \in ZipOutcomes :
                LET snap == _prepare_repo_snapshot(RepoFullName, task.head_sha, git, zip)
                IN  IF snap.raised
                    THEN /\ task' = [LeaveTry(task) EXCEPT
                                        !.pc = "h_edit", !.caught = TRUE,
                                        !.error = snap.error, !.tmpdir = dir,
                                        !.calls = @ \cup {"snapshot"}]
                         /\ tmp_dirs' = CleanupOnRaise(tmp_dirs \cup {dir}, dir)
                    ELSE /\ task' = [task EXCEPT
                                        !.pc = "agent", !.repo_dir = snap.repo_dir,
                                        !.snapshot = IF snap.repo_dir.exists
                                                     THEN "dir" ELSE "nodir",
                                        !.tmpdir = dir,
                                        !.calls = @ \cup {"snapshot"}]
                         /\ tmp_dirs' = tmp_dirs \cup {dir}
          \/ \E e \in WriteErrTexts :
                /\ task' = [LeaveTry(task) EXCEPT !.pc = "h_edit", !.caught = TRUE,
                                                  !.error = e, !.tmpdir = dir]
                /\ tmp_dirs' = CleanupOnRaise(tmp_dirs \cup {dir}, dir)
    /\ UNCHANGED <<now, review_run, review_comments, issue_comment, snap_vars, chat_vars, lib_vars>>

\* lines 186-202: repo_index.md and context_files, run_opencode in repo_dir, the
\* with block left (by return, by the exception of run_opencode or of the
\* write of repo_index.md), summary
InvokeAgent ==
    /\ task.pc = "agent"
    /\ LET call == [made |-> TRUE, cwd |-> task.repo_dir,
                    files |-> ContextFiles(task.repo_dir),
                    api_key |-> task.api_key, env |-> AgentEnv(task.api_key),
                    auth |-> AgentAuthArgument, text |-> <<>>]
       IN  \/ /\ \E text \in AgentTexts :
                   task' = [task EXCEPT !.pc = "edit",
                                        !.agent = [call EXCEPT !.text = text],
                                        !.summary = Strip(text),
                                        !.repo_dir = NoDir,
                                        !.calls = @ \cup {"agent"}]
              /\ tmp_dirs' = CleanupOnReturn(tmp_dirs, task.tmpdir)
           \/ /\ \E e \in ExcTexts :
                   task' = [LeaveTry(task) EXCEPT !.pc = "h_edit", !.agent = call,
                                                  !.caught = TRUE, !.error = e,
                                                  !.calls = @ \cup {"agent"}]
              /\ tmp_dirs' = CleanupOnRaise(tmp_dirs, task.tmpdir)
           \/ /\ task.repo_dir.exists
              /\ \E e \in WriteErrTexts :
                   task' = [LeaveTry(task) EXCEPT !.pc = "h_edit", !.caught = TRUE,
                                                  !.error = e]
              /\ tmp_dirs' = CleanupOnRaise(tmp_dirs, task.tmpdir)
    /\ UNCHANGED <<now, review_run, review_comments, issue_comment, snap_vars, chat_vars, lib_vars>>

\* the edit with its failure ignored: the task goes on to the saves
EditComment_FailureIgnored ==
    /\ task.pc = "edit"
    /\ \/ issue_comment' = [issue_comment EXCEPT !.body = task.summary]
       \/ UNCHANGED issue_comment
    /\ Goto("save_comment", {})
    /\ UNCHANGED <<now, review_run, review_comments, snap_vars, tmp_dirs, chat_vars, lib_vars>>

\* lines 203-209: github.update_issue_comment with the summary
EditComment ==
    /\ task.pc = "edit"
    /\ \/ /\ issue_comment' = [issue_comment EXCEPT !.body = task.summary]
          /\ Goto("save_comment", {})
       \/ /\ \E e \in ExcTexts : Caught(e, {})
          /\ UNCHANGED issue_comment
    /\ UNCHANGED <<now, review_run, review_comments, snap_vars, tmp_dirs, chat_vars, lib_vars>>

\* a new row for every body instead of the save of the existing one
SaveBody_NewRow(rows, body) ==
    Append(rows, [body |-> body, github_comment_id |-> rows[Len(rows)].github_comment_id])

\* review_comment.body = body; review_comment.save(update_fields=["body"])
SaveBody(rows, body) == [rows EXCEPT ![Len(rows)].body = body]

\* lines 212-213
SaveComment ==
    /\ task.pc = "save_comment"
    /\ review_comments' = SaveBody(review_comments, task.summary)
    /\ Goto("save_run", {})
    /\ UNCHANGED <<now, review_run, issue_comment, snap_vars, tmp_dirs, chat_vars, lib_vars>>

\* lines 215-218
SaveRunDone ==
    /\ task.pc = "save_run"
    /\ review_run' = [review_run EXCEPT !.status = STATUS_DONE,
                                        !.finished_at = now,
                                        !.summary = task.summary]
    /\ Returns
    /\ UNCHANGED <<now, review_comments, issue_comment, snap_vars, tmp_dirs, chat_vars, lib_vars>>

\* the failure edit without its own try/except: its exception leaves the task
HandlerEdit_NotSwallowed ==
    /\ task.pc = "h_edit"
    /\ \/ /\ issue_comment' = [issue_comment EXCEPT
                                 !.body = FailureBody(ErrorText(task.error))]
          /\ task' = [task EXCEPT !.pc = "h_save_comment", !.notice = "edited"]
       \/ /\ UNCHANGED issue_comment
          /\ Escapes
    /\ UNCHANGED <<now, review_run, review_comments, snap_vars, tmp_dirs, chat_vars, lib_vars>>

\* lines 219-246: the failure notice; update_issue_comment succeeds, or raises
\* and the exception is swallowed
HandlerEdit ==
    /\ task.pc = "h_edit"
    /\ \/ /\ issue_comment' = [issue_comment EXCEPT
                                 !.body = FailureBody(ErrorText(task.error))]
          /\ task' = [task EXCEPT !.pc = "h_save_comment", !.notice = "edited"]
       \/ /\ UNCHANGED issue_comment
          /\ task' = [task EXCEPT !.pc = "h_save_comment", !.notice = "swallowed"]
    /\ UNCHANGED <<now, review_run, review_comments, snap_vars, tmp_dirs, chat_vars, lib_vars>>

\* lines 248-249
HandlerSaveComment ==
    /\ task.pc = "h_save_comment"
    /\ review_comments' =
          SaveBody(review_comments, FailureBody(ErrorText(task.error)))
    /\ Goto("h_save_run", {})
    /\ UNCHANGED <<now, review_run, issue_comment, snap_vars, tmp_dirs, chat_vars, lib_vars>>

\* lines 251-254
HandlerSaveRun ==
    /\ task.pc = "h_save_run"
    /\ review_run' = [review_run EXCEPT
                        !.status = STATUS_FAILED,
                        !.finished_at = now,
                        !.error_message = ErrorText(task.error)]
    /\ Returns
    /\ UNCHANGED <<now, review_comments, issue_comment, snap_vars, tmp_dirs, chat_vars, lib_vars>>

----------------------------------------------------------------------------
(* The chat task: handle_chat_response and handle_chat_response_v2, for one *)
(* inbound comment that mentions the bot.  chat_messages is the ChatMessage *)
(* table of the pull request in creation order, pr_comments the comments    *)
(* the task posted on the pull request.                                     *)

ChatBodies == { <<"@codereview", " ", "why?">>, <<" ", "@codereview", ",", " ">> }
InboundCommentId == "comment-2"
ReplyCommentId == "comment-3"

NoResponseText == <<"I couldn't generate a response from the model output.">>
NoReviewYetText == <<"No completed automated review found yet.">>
NoStoredSummaryText ==
    <<"Latest review run exists, but no summary/comment body was stored.">>

ChatFailureBody(error_text) ==
    <<"Reply failed.", "\n", "Error:">> \o error_text \o <<"\n", "Troubleshooting">>

RECURSIVE RemoveMentions(_)
RemoveMentions(s) ==
    IF s = <<>> THEN <<>>
    ELSE IF Head(s) = "@codereview" THEN RemoveMentions(Tail(s))
    ELSE <<Head(s)>> \o RemoveMentions(Tail(s))

RECURSIVE LStripPunctuation(_)
LStripPunctuation(s) ==
    IF s = <<>> THEN <<>>
    ELSE IF IsWhitespace(Head(s)) \/ Head(s) \in {",", ":", ";", "-"}
    THEN LStripPunctuation(Tail(s))
    ELSE s

_extract_user_query(body) ==
    Strip(LStripPunctuation(Strip(RemoveMentions(Strip(body)))))

\* the newest done run of the pull request, its newest comment
_latest_review_summary(run, comments) ==
    IF ~(run.exists /\ run.status = STATUS_DONE) THEN NoReviewYetText
    ELSE IF comments # <<>> /\ Strip(comments[Len(comments)].body) # <<>>
    THEN Strip(comments[Len(comments)].body)
    ELSE IF Strip(run.summary) # <<>> THEN Strip(run.summary)
    ELSE NoStoredSummaryText

ChatContextFiles(repo_dir) ==
    <<"pull_request.md", "conversation.md", "latest_review_summary.md",
      "pull_request.diff", "repo_snapshot.md">>
    \o (IF repo_dir.exists THEN <<"repo_index.md">> ELSE <<>>)

\* a chat task may be delivered again for the same message
MaxChatRuns == 2

\* message: the index in chat_messages of the message the task answers;
\* runs: the executions before this one; before: the ChatMessage table when
\* handle_chat_response_v2 was entered
NoChat ==
    [pc |-> "none", owner |-> NoOwner, comment_body |-> <<>>, message |-> 0,
     runs |-> 0, before |-> <<>>,
     user_query |-> <<>>, caught |-> FALSE, error |-> <<>>, key_row |-> NoKeyRow,
     api_key |-> <<>>, review_summary |-> <<>>, head_sha |-> <<>>, repo_dir |-> NoDir,
     snapshot |-> "none", calls |-> {}, agent |-> NoAgentCall, response |-> <<>>,
     notice |-> "none", tmpdir |-> NoTmpDir]

ChatLeaveTry(c) ==
    [c EXCEPT !.api_key = <<>>, !.review_summary = <<>>, !.head_sha = <<>>,
              !.repo_dir = NoDir, !.response = <<>>, !.user_query = <<>>]
ChatReturn(c) == [ChatLeaveTry(c) EXCEPT !.pc = "ended", !.error = <<>>]

ChatCaught(e, call) ==
    chat' = [ChatLeaveTry(chat) EXCEPT !.pc = "h_post", !.caught = TRUE,
                                       !.error = e, !.calls = @ \cup call]

ChatGoto(pc, call) ==
    chat' = [chat EXCEPT !.pc = pc, !.calls = @ \cup call]

\* services.record_chat_message: the inbound row, the task enqueued with the
\* body of the message; owner is the owner of the installation's app
RecordChatMessage ==
    /\ chat.pc = "none"
    /\ \E body \in ChatBodies, owner \in Users \cup {NoOwner} :
          /\ chat_messages' =
                Append(chat_messages,
                       [author |-> "bob", body |-> body,
                        github_comment_id |-> InboundCommentId])
          /\ chat' = [NoChat EXCEPT !.pc = "queued", !.owner = owner,
                                    !.comment_body = body]
    /\ UNCHANGED <<review_vars, snap_vars, tmp_dirs, pr_comments, lib_vars>>

\* the newest message with that body, 0 when there is none
NewestWithBody(messages, body) ==
    IF \E i \in 1..Len(messages) : messages[i].body = body
    THEN CHOOSE i \in 1..Len(messages) :
            /\ messages[i].body = body
            /\ \A j \in 1..Len(messages) : messages[j].body = body => j <= i
    ELSE 0

\* handle_chat_response, and handle_chat_response_v2 up to its try block
StartChat ==
    /\ chat.pc = "queued"
    /\ LET found == NewestWithBody(chat_messages, chat.comment_body)
           messages == IF found # 0 THEN chat_messages
                       ELSE Append(chat_messages,
                                   [author |-> "unknown", body |-> chat.comment_body,
                                    github_comment_id |-> "timestamp"])
           message == IF found # 0 THEN found ELSE Len(messages)
       IN  /\ chat_messages' = messages
           /\ chat' = [chat EXCEPT !.pc = "credential", !.message = message,
                                   !.before = messages,
                                   !.user_query = _extract_user_query(messages[message].body)]
    /\ UNCHANGED <<review_vars, snap_vars, tmp_dirs, pr_comments, lib_vars>>

\* lines 293-313
ChatResolveCredential ==
    /\ chat.pc = "credential"
    /\ \E row \in KeyRows :
          IF chat.owner = NoOwner
          THEN ChatCaught(NoOwnerText, {})
          ELSE IF ResolveApiKey(row) = <<>>
          THEN chat' = [ChatLeaveTry(chat) EXCEPT !.pc = "h_post", !.caught = TRUE,
                                                  !.error = MissingKeyText,
                                                  !.key_row = row]
          ELSE chat' = [chat EXCEPT !.pc = "context", !.key_row = row,
                                    !.api_key = ResolveApiKey(row)]
    /\ UNCHANGED <<review_vars, snap_vars, tmp_dirs, chat_messages, pr_comments, lib_vars>>

\* lines 315-320: rules, conversation, latest review summary
ChatBuildContext ==
    /\ chat.pc = "context"
    /\ chat' = [chat EXCEPT !.pc = "token",
                            !.review_summary =
                                _latest_review_summary(review_run, review_comments)]
    /\ UNCHANGED <<review_vars, snap_vars, tmp_dirs, chat_messages, pr_comments, lib_vars>>

\* line 321
ChatFetchToken ==
    /\ chat.pc = "token"
    /\ \/ ChatGoto("pr_json", {"token"})
       \/ \E e \in ExcTexts : ChatCaught(e, {"token"})
    /\ UNCHANGED <<review_vars, snap_vars, tmp_dirs, chat_messages, pr_comments, lib_vars>>

\* lines 322-329
ChatFetchPrJson ==
    /\ chat.pc = "pr_json"
    /\ \/ \E sha \in HeadShas :
             chat' = [chat EXCEPT !.pc = "diff", !.head_sha = Strip(sha),
                                  !.calls = @ \cup {"pr_json"}]
       \/ \E e \in ExcTexts : ChatCaught(e, {"pr_json"})
    /\ UNCHANGED <<review_vars, snap_vars, tmp_dirs, chat_messages, pr_comments, lib_vars>>

\* lines 331-337
ChatFetchDiff ==
    /\ chat.pc = "diff"
    /\ \/ ChatGoto("snapshot", {"diff"})
       \/ \E e \in ExcTexts : ChatCaught(e, {"diff"})
    /\ UNCHANGED <<review_vars, snap_vars, tmp_dirs, chat_messages, pr_comments, lib_vars>>

\* the temporary directory is made, pull_request.md, conversation.md,
\* latest_review_summary.md and the diff written, _prepare_repo_snapshot
\* called, repo_snapshot.md written
ChatPrepareSnapshot ==
    /\ chat.pc = "snapshot"
    /\ \E dir \in Mkdtemp(tmp_dirs, ChatTmpPrefix) :
          \/ \E git \in GitOutcomes, zip \in ZipOutcomes :
                LET snap == _prepare_repo_snapshot(RepoFullName, chat.head_sha, git, zip)
                IN  IF snap.raised
                    THEN /\ chat' = [ChatLeaveTry(chat) EXCEPT
                                        !.pc = "h_post", !.caught = TRUE,
                                        !.error = snap.error, !.tmpdir = dir,
                                        !.calls = @ \cup {"snapshot"}]
                         /\ tmp_dirs' = CleanupOnRaise(tmp_dirs \cup {dir}, dir)
                    ELSE /\ chat' = [chat EXCEPT
                                        !.pc = "agent", !.repo_dir = snap.repo_dir,
                                        !.snapshot = IF snap.repo_dir.exists
                                                     THEN "dir" ELSE "nodir",
                                        !.tmpdir = dir,
                                        !.calls = @ \cup {"snapshot"}]
                         /\ tmp_dirs' = tmp_dirs \cup {dir}
          \/ \E e \in WriteErrTexts :
                /\ chat' = [ChatLeaveTry(chat) EXCEPT !.pc = "h_post", !.caught = TRUE,
                                                      !.error = e, !.tmpdir = dir]
                /\ tmp_dirs' = CleanupOnRaise(tmp_dirs \cup {dir}, dir)
    /\ UNCHANGED <<review_vars, snap_vars, chat_messages, pr_comments, lib_vars>>

\* repo_index.md, run_opencode in repo_dir, the with block left, response
ChatInvokeAgent ==
    /\ chat.pc = "agent"
    /\ LET call == [made |-> TRUE, cwd |-> chat.repo_dir,
                    files |-> ChatContextFiles(chat.repo_dir),
                    api_key |-> chat.api_key, env |-> AgentEnv(chat.api_key),
                    auth |-> AgentAuthArgument, text |-> <<>>]
       IN  \/ /\ \E text \in AgentTexts :
                   chat' = [chat EXCEPT !.pc = "post",
                                        !.agent = [call EXCEPT !.text = text],
                                        !.response = Or(Strip(text), NoResponseText),
                                        !.repo_dir = NoDir,
                                        !.calls = @ \cup {"agent"}]
              /\ tmp_dirs' = CleanupOnReturn(tmp_dirs, chat.tmpdir)
           \/ /\ \E e \in ExcTexts :
                   chat' = [ChatLeaveTry(chat) EXCEPT !.pc = "h_post", !.agent = call,
                                                      !.caught = TRUE, !.error = e,
                                                      !.calls = @ \cup {"agent"}]
              /\ tmp_dirs' = CleanupOnRaise(tmp_dirs, chat.tmpdir)
           \/ /\ chat.repo_dir.exists
              /\ \E e \in WriteErrTexts :
                   chat' = [ChatLeaveTry(chat) EXCEPT !.pc = "h_post", !.caught = TRUE,
                                                      !.error = e]
              /\ tmp_dirs' = CleanupOnRaise(tmp_dirs, chat.tmpdir)
    /\ UNCHANGED <<review_vars, snap_vars, chat_messages, pr_comments, lib_vars>>

\* github.post_issue_comment with the response
ChatPostReply ==
    /\ chat.pc = "post"
    /\ \/ /\ pr_comments' = Append(pr_comments,
                                   [id |-> ReplyCommentId, body |-> chat.response])
          /\ ChatGoto("save", {"reply"})
       \/ /\ \E e \in ExcTexts : ChatCaught(e, {})
          /\ UNCHANGED pr_comments
    /\ UNCHANGED <<review_vars, snap_vars, tmp_dirs, chat_messages, lib_vars>>

UpdateOrCreate_AlwaysCreate(messages, id, author, body) ==
    Append(messages, [author |-> author, body |-> body, github_comment_id |-> id])
\* ChatMessage.objects.update_or_create(github_comment_id=id, defaults=...)
UpdateOrCreate(messages, id, author, body) ==
    IF \E i \in 1..Len(messages) : messages[i].github_comment_id = id
    THEN [i \in 1..Len(messages) |->
            IF messages[i].github_comment_id = id
            THEN [messages[i] EXCEPT !.author = author, !.body = body]
            ELSE messages[i]]
    ELSE Append(messages, [author |-> author, body |-> body, github_comment_id |-> id])

\* the reply recorded under the id of the posted comment
\* lines 444-452, the last statement of the try block: the row of the reply
\* is written, or the write raises (the database is gone, the pull request
\* was deleted while the agent ran)
ChatSaveMessage ==
    /\ chat.pc = "save"
    /\ \/ /\ chat_messages' =
                UpdateOrCreate(chat_messages, ReplyCommentId, "codereview", chat.response)
          /\ chat' = ChatReturn(chat)
       \/ /\ \E e \in ExcTexts : ChatCaught(e, {})
          /\ UNCHANGED chat_messages
    /\ UNCHANGED <<review_vars, snap_vars, tmp_dirs, pr_comments, lib_vars>>

ChatHandlerPost_StoresFailure ==
    /\ chat.pc = "h_post"
    /\ pr_comments' =
          Append(pr_comments,
                 [id |-> ReplyCommentId, body |-> ChatFailureBody(ErrorText(chat.error))])
    /\ chat_messages' =
          UpdateOrCreate(chat_messages, ReplyCommentId, "codereview",
                         ChatFailureBody(ErrorText(chat.error)))
    /\ chat' = [ChatReturn(chat) EXCEPT !.notice = "posted"]
    /\ UNCHANGED <<review_vars, snap_vars, tmp_dirs, lib_vars>>
\* the except block: the failure comment, posted best effort
ChatHandlerPost ==
    /\ chat.pc = "h_post"
    /\ \/ /\ pr_comments' =
                Append(pr_comments,
                       [id |-> ReplyCommentId, body |-> ChatFailureBody(ErrorText(chat.error))])
          /\ chat' = [ChatReturn(chat) EXCEPT !.notice = "posted"]
       \/ /\ UNCHANGED pr_comments
          /\ chat' = [ChatReturn(chat) EXCEPT !.notice = "swallowed"]
    /\ UNCHANGED <<review_vars, snap_vars, tmp_dirs, chat_messages, lib_vars>>

\* handle_chat_response is called again with the body of the same message
ChatAgain ==
    /\ chat.pc = "ended"
    /\ chat.runs + 1 < MaxChatRuns
    /\ chat' = [NoChat EXCEPT !.pc = "queued", !.owner = chat.owner,
                              !.comment_body = chat.comment_body,
                              !.runs = chat.runs + 1]
    /\ UNCHANGED <<review_vars, snap_vars, tmp_dirs, chat_messages, pr_comments, lib_vars>>

----------------------------------------------------------------------------
(* The stale-run sweep of the dashboard views: _mark_stale_review_runs.     *)

StaleQueuedText == <<"Marked stale: queued > 1h (worker may be down).">>
StaleRunningText == <<"Marked stale: running > 2h (worker may have crashed).">>
StaleNoStartText == <<"Marked stale: running > 2h (missing start time).">>

\* base.filter(...).update(status=failed, finished_at=now, error_message=text),
\* base being the rows of `owner`, matched whether the row passes the filter
UpdateStale(row, owner, t, matched, text) ==
    IF row.exists /\ row.owner = owner /\ matched
    THEN [row EXCEPT !.status = STATUS_FAILED, !.finished_at = t,
                     !.error_message = text]
    ELSE row

IsStaleQueued_NeedsStart(x, stale_queued_before) ==
    x.status = STATUS_QUEUED /\ x.started_at # NoTime /\ x.created_at < stale_queued_before
IsStaleQueued(x, stale_queued_before) ==
    x.status = STATUS_QUEUED /\ x.created_at < stale_queued_before

IsStaleRunning_FromCreation(x, stale_running_before) ==
    /\ x.status = STATUS_RUNNING
    /\ x.started_at # NoTime
    /\ x.created_at < stale_running_before
IsStaleRunning(x, stale_running_before) ==
    /\ x.status = STATUS_RUNNING
    /\ x.started_at # NoTime
    /\ x.started_at < stale_running_before

IsStaleNoStart(x, stale_running_before) ==
    /\ x.status = STATUS_RUNNING
    /\ x.started_at = NoTime
    /\ x.created_at < stale_running_before

_mark_stale_review_runs(row, owner, t) ==
    LET stale_queued_before == t - StaleQueuedHours
        stale_running_before == t - StaleRunningHours
        q == UpdateStale(row, owner, t, IsStaleQueued(row, stale_queued_before),
                         StaleQueuedText)
        s == UpdateStale(q, owner, t, IsStaleRunning(q, stale_running_before),
                         StaleRunningText)
    IN  UpdateStale(s, owner, t, IsStaleNoStart(s, stale_running_before),
                    StaleNoStartText)

\* a dashboard request of a signed-in user (views.py lines 761-762, 1037-1038)
Sweep ==
    /\ \E owner \in Users :
          review_run' = _mark_stale_review_runs(review_run, owner, now)
    /\ UNCHANGED <<now, review_comments, issue_comment, task, snap_vars, tmp_dirs, chat_vars, lib_vars>>

\* time passes
Tick ==
    /\ now < MaxTime
    /\ now' = now + 1
    /\ UNCHANGED <<review_run, review_comments, issue_comment, task, snap_vars, tmp_dirs, chat_vars, lib_vars>>

----------------------------------------------------------------------------
(* github.get_installation_token *)

max_attempts == 3

\* what one client.post can do: a response with a status and a JSON body, a
\* timeout, a network error
TokenResponse(status, has_token, token) ==
    [kind |-> "response", status |-> status, has_token |-> has_token, token |-> token]
TimeoutOutcome == [kind |-> "timeout", status |-> 0, has_token |-> FALSE, token |-> <<>>]
NetworkOutcome == [kind |-> "network", status |-> 0, has_token |-> FALSE, token |-> <<>>]
PostOutcomes ==
    { TokenResponse(201, TRUE, t) : t \in {<<"ghs_abc">>, <<"ghs_xyz">>, <<" ">>} }
        \cup { TokenResponse(201, FALSE, <<>>) }
        \cup { TokenResponse(c, FALSE, <<>>) : c \in {401, 404, 500, 502, 503, 504} }
        \cup { TimeoutOutcome, NetworkOutcome }

\* response.raise_for_status()
RaisesForStatus(status) == status >= 400

\* every error status retried
Retryable_AnyStatus(status) == TRUE

\* line 128: status_code in {502, 503, 504}
Retryable(status) == status \in {502, 503, 504}

\* line 121: isinstance(token, str) and token.strip()
TokenPresent(r) == r.has_token /\ Strip(r.token) # <<>>

\* time.sleep(backoff_seconds * (2 ** (attempt - 1))), in units of backoff_seconds
BackoffUnits(attempt) == 2 ^ (attempt - 1)

NoTokenMsg == <<"GitHub installation token response did not include a token.">>
FailedTokenMsg == <<"Failed to create a GitHub installation token.">>
EgressHint ==
    "Ensure the worker has outbound HTTPS access to api.github.com:443 (DNS/egress/proxy)."
TimedOutMsg ==
    <<"GitHub API request timed out while creating an installation token.", EgressHint>>
NetworkFailedMsg ==
    <<"GitHub API request failed while creating an installation token.", EgressHint>>
RequestFailedMsg == <<"GitHub API request failed while creating an installation token.">>
\* str(e) of the httpx.HTTPStatusError of raise_for_status
StatusErrorMsg(status) ==
    <<IF status < 500 THEN "Client error" ELSE "Server error", ToString(status)>>

NoTokenResult == [kind |-> "none", exc |-> "", msg |-> <<>>, token |-> <<>>]
TokenReturned(token) == [kind |-> "returned", exc |-> "", msg |-> <<>>, token |-> token]
TokenRaised(exc, msg) == [kind |-> "raised", exc |-> exc, msg |-> msg, token |-> <<>>]

NoTokenCall ==
    [pc |-> "idle", responses |-> <<>>, attempt |-> 0, last_exception |-> "none",
     slept |-> <<>>, result |-> NoTokenResult]

\* the end of one pass of the for loop that neither returned nor raised
AfterAttempt(attempt) == IF attempt < max_attempts THEN "sleep" ELSE "after_loop"

\* lines 113-135: one pass of the loop up to the sleep
TokenAttempt ==
    /\ token_call.pc = "post"
    /\ LET r == token_call.responses[token_call.attempt]
       IN  token_call' =
             IF r.kind = "response" /\ ~RaisesForStatus(r.status)
             THEN IF TokenPresent(r)
                  THEN [token_call EXCEPT !.pc = "done", !.result = TokenReturned(r.token)]
                  \* RuntimeError(NoTokenMsg) is caught by except Exception
                  ELSE [token_call EXCEPT !.pc = "done",
                                   !.result = TokenRaised("RuntimeError", FailedTokenMsg)]
             ELSE IF r.kind = "response"
             THEN IF Retryable(r.status) /\ token_call.attempt < max_attempts
                  THEN [token_call EXCEPT !.pc = AfterAttempt(token_call.attempt),
                                   !.last_exception = "HTTPStatusError"]
                  ELSE [token_call EXCEPT !.pc = "done",
                                   !.result = TokenRaised("httpx.HTTPStatusError",
                                                          StatusErrorMsg(r.status))]
             ELSE [token_call EXCEPT !.pc = AfterAttempt(token_call.attempt),
                              !.last_exception = IF r.kind = "timeout"
                                                 THEN "TimeoutException"
                                                 ELSE "NetworkError"]
    /\ UNCHANGED <<pipeline_vars, oc_run, oc_cmd, diff_fetch, zip_extract, repo_index, review_ctx, transcript, sweep_call, webhook, reaction, oc_auth, pr_files>>

\* lines 136-137: the sleep, then the next pass
TokenSleep ==
    /\ token_call.pc = "sleep"
    /\ token_call' = [token_call EXCEPT !.pc = "post", !.attempt = @ + 1,
                          !.slept = Append(@, BackoffUnits(token_call.attempt))]
    /\ UNCHANGED <<pipeline_vars, oc_run, oc_cmd, diff_fetch, zip_extract, repo_index, review_ctx, transcript, sweep_call, webhook, reaction, oc_auth, pr_files>>

\* lines 139-154: the raises after the loop
TokenAfterLoop ==
    /\ token_call.pc = "after_loop"
    /\ token_call' = [token_call EXCEPT
                 !.pc = "done",
                 !.result = TokenRaised("RuntimeError",
                               CASE token_call.last_exception = "TimeoutException" -> TimedOutMsg
                                 [] token_call.last_exception = "NetworkError" -> NetworkFailedMsg
                                 [] OTHER -> RequestFailedMsg)]
    /\ UNCHANGED <<pipeline_vars, oc_run, oc_cmd, diff_fetch, zip_extract, repo_index, review_ctx, transcript, sweep_call, webhook, reaction, oc_auth, pr_files>>

----------------------------------------------------------------------------
(* opencode_client.run_opencode: the output of the process *)

MaxLines == 3
\* max_chars of _compact_output, scaled from 4000 characters to tokens
CompactMaxChars == 4

\* U+2028 LINE SEPARATOR: valid inside a JSON string, a line boundary for
\* str.splitlines()
LS == "U+2028"

\* One line of stdout. A JSON object is described by the fields run_opencode
\* reads; a text field holds <<>> when the key is absent, not a string or
\* empty, which the code does not tell apart.
NoEvent ==
    [json |-> "object", type |-> "", part_text |-> <<>>, assistant |-> FALSE,
     msg_content |-> <<>>, content |-> <<>>, text |-> <<>>,
     err_message |-> <<>>, err_name |-> <<>>]
\* {"type":"text","part":{"text":t}}
PartText(t) == [NoEvent EXCEPT !.type = "text", !.part_text = t]
\* {"message":{"role":"assistant","content":t}}
AssistantMessage(t) == [NoEvent EXCEPT !.assistant = TRUE, !.msg_content = t]
\* {"content":t}
TopContent(t) == [NoEvent EXCEPT !.content = t]
\* {"text":t}
TopText(t) == [NoEvent EXCEPT !.text = t]
\* {"type":"error","error":{"name":name,"data":{"message":message}}}
ErrorEvent(message, name) ==
    [NoEvent EXCEPT !.type = "error", !.err_message = message, !.err_name = name]
\* {"type":"step_start"}
UnrecognizedEvent == [NoEvent EXCEPT !.type = "step_start"]
\* text that json.loads rejects
NonJsonLine == [NoEvent EXCEPT !.json = "nonjson"]
\* JSON that is not an object
NonDictLine == [NoEvent EXCEPT !.json = "nondict"]
\* whitespace only
BlankLine == [NoEvent EXCEPT !.json = "blank"]

JunkLines == { NonJsonLine, NonDictLine, UnrecognizedEvent, BlankLine }

StdoutLines ==
    JunkLines \cup
    { PartText(<<"LGTM">>),
      PartText(<<"a", LS, "b">>),
      AssistantMessage(<<" ", "Fix", " ", "auth.py", "\n">>),
      [TopContent(<<"c1">>) EXCEPT !.text = <<"t1">>],
      TopText(<<" ">>),
      ErrorEvent(<<"bad key">>, <<"APIError">>),
      ErrorEvent(<<"quota", LS, "exceeded">>, <<"APIError">>) }

Stderrs ==
    { <<>>, <<"boom", "\n">>,
      <<"e1", " ", "e2", " ", "e3", " ", "e4", " ", "e5">> }

ReturnCodes == {0, 1}

\* the last n elements of s
LastN(s, n) == IF Len(s) <= n THEN s ELSE SubSeq(s, Len(s) - n + 1, Len(s))

\* the start of the output kept instead of its end
_compact_output_Head(output) ==
    LET normalized == Strip(output)
    IN  IF Len(normalized) <= CompactMaxChars THEN normalized
        ELSE <<"...(truncated)...", "\n">> \o RStrip(SubSeq(normalized, 1, CompactMaxChars))

\* lines 32-39
_compact_output(output) ==
    LET normalized == Strip(output)
    IN  IF Len(normalized) <= CompactMaxChars THEN normalized
        ELSE <<"...(truncated)...", "\n">> \o LStrip(LastN(normalized, CompactMaxChars))

\* the number of U+2028 in a text
CountLS(t) == Cardinality({ i \in 1..Len(t) : t[i] = LS })
LineBreaksInside(line) ==
    CountLS(line.part_text) + CountLS(line.msg_content) + CountLS(line.content)
        + CountLS(line.text) + CountLS(line.err_message) + CountLS(line.err_name)

\* str.splitlines() on one line of stdout: a line with U+2028 inside a string
\* comes out as pieces, of which none is a JSON document
SplitLine(line) ==
    IF line.json = "object" /\ LineBreaksInside(line) > 0
    THEN [i \in 1..(LineBreaksInside(line) + 1) |-> NonJsonLine]
    ELSE <<line>>

\* line 224: stdout.splitlines()
RECURSIVE SplitLines(_)
SplitLines(stdout) ==
    IF stdout = <<>> THEN <<>>
    ELSE SplitLine(Head(stdout)) \o SplitLines(Tail(stdout))

\* line 215: proc.stdout.strip() is empty
StdoutIsBlank(stdout) == \A i \in 1..Len(stdout) : stdout[i].json = "blank"

\* the text of stdout as the previews show it, one token per line
RenderLine(line) ==
    CASE line.json = "blank" -> " "
      [] line.json = "nonjson" -> "not json"
      [] line.json = "nondict" -> "[]"
      [] OTHER -> "{...}"
RECURSIVE RenderStdout(_)
RenderStdout(stdout) ==
    IF stdout = <<>> THEN <<>>
    ELSE <<RenderLine(Head(stdout)), "\n">> \o RenderStdout(Tail(stdout))

\* s.strip() as a list of zero or one chunk
Chunk(s) == IF Strip(s) # <<>> THEN <<Strip(s)>> ELSE <<>>

\* every JSON object yields its type as a chunk
EventChunks_TypeAsText(event) ==
    IF Chunk(event.part_text) # <<>> THEN Chunk(event.part_text)
    ELSE IF event.assistant THEN Chunk(event.msg_content)
    ELSE Chunk(event.content) \o Chunk(event.text) \o << <<event.type>> >>

\* lines 245-266: the chunks one JSON object adds
EventChunks(event) ==
    IF Chunk(event.part_text) # <<>> THEN Chunk(event.part_text)
    ELSE IF event.assistant THEN Chunk(event.msg_content)
    ELSE Chunk(event.content) \o Chunk(event.text)

\* lines 234-239: data.get("message") or error.get("name") or "OpenCode error"
ErrorEventMessage(event) ==
    Or(event.err_message, Or(event.err_name, <<"OpenCode error">>))

\* lines 223-266: the loop over the lines, up to the first error event
RECURSIVE ParseEvents(_, _)
ParseEvents(lines, assistant_chunks) ==
    IF lines = <<>> THEN [raised |-> FALSE, message |-> <<>>, chunks |-> assistant_chunks]
    ELSE LET event == Head(lines)
         IN  IF event.json \in {"blank", "nonjson"}
             THEN ParseEvents(Tail(lines), assistant_chunks)
             ELSE IF event.json = "object" /\ event.type = "error"
             THEN [raised |-> TRUE, message |-> ErrorEventMessage(event),
                   chunks |-> assistant_chunks]
             ELSE IF event.json # "object"
             THEN ParseEvents(Tail(lines), assistant_chunks)
             ELSE ParseEvents(Tail(lines), assistant_chunks \o EventChunks(event))

\* "\n\n".join(chunks)
RECURSIVE JoinChunks(_)
JoinChunks(chunks) ==
    IF chunks = <<>> THEN <<>>
    ELSE IF Len(chunks) = 1 THEN chunks[1]
    ELSE chunks[1] \o <<"\n", "\n">> \o JoinChunks(Tail(chunks))

\* what a run_opencode call ends in
NoOutcome ==
    [kind |-> "none", text |-> <<>>, head |-> "", exit |-> 0, error |-> <<>>,
     stderr |-> <<>>, stdout |-> <<>>]
Returned(text) == [NoOutcome EXCEPT !.kind = "text", !.text = text]
\* RuntimeError(str(message_text))
RaisedErrorEvent(message) == [NoOutcome EXCEPT !.kind = "error_event", !.error = message]
\* lines 217-221: f"opencode produced no output (exit={returncode}): {stderr}"
RaisedNoOutput(returncode, stderr) ==
    [NoOutcome EXCEPT !.kind = "no_output", !.head = "opencode produced no output",
                      !.exit = returncode, !.stderr = _compact_output(stderr)]
\* lines 269-280: f"opencode returned no assistant text (exit={returncode}): {details}",
\* details the non-empty previews of stderr and stdout
RaisedNoText(returncode, stdout, stderr) ==
    [NoOutcome EXCEPT !.kind = "no_text", !.head = "opencode returned no assistant text",
                      !.exit = returncode, !.stderr = _compact_output(stderr),
                      !.stdout = _compact_output(RenderStdout(stdout))]

\* a nonzero exit status treated as a failure
OutputOutcome_ExitStatusFails(stdout, stderr, returncode) ==
    IF returncode # 0 \/ StdoutIsBlank(stdout) THEN RaisedNoOutput(returncode, stderr)
    ELSE LET parsed == ParseEvents(SplitLines(stdout), <<>>)
             final_text == JoinChunks(parsed.chunks)
         IN  IF parsed.raised THEN RaisedErrorEvent(parsed.message)
             ELSE IF final_text = <<>> THEN RaisedNoText(returncode, stdout, stderr)
             ELSE Returned(final_text)

\* lines 214-281: run_opencode after subprocess.run returned
OutputOutcome(stdout, stderr, returncode) ==
    IF StdoutIsBlank(stdout) THEN RaisedNoOutput(returncode, stderr)
    ELSE LET parsed == ParseEvents(SplitLines(stdout), <<>>)
             final_text == JoinChunks(parsed.chunks)
         IN  IF parsed.raised THEN RaisedErrorEvent(parsed.message)
             ELSE IF final_text = <<>> THEN RaisedNoText(returncode, stdout, stderr)
             ELSE Returned(final_text)

NoOpencodeRun == [stdout |-> <<>>, stderr |-> <<>>, returncode |-> 0,
                  pc |-> "idle", outcome |-> NoOutcome]

\* run_opencode from the return of subprocess.run to its own return or raise
ReadOutput ==
    /\ oc_run.pc = "exited"
    /\ oc_run' = [oc_run EXCEPT
                    !.pc = "done",
                    !.outcome = OutputOutcome(oc_run.stdout, oc_run.stderr,
                                              oc_run.returncode)]
    /\ UNCHANGED <<pipeline_vars, token_call, oc_cmd, diff_fetch, zip_extract, repo_index, review_ctx, transcript, sweep_call, webhook, reaction, oc_auth, pr_files>>

----------------------------------------------------------------------------
(* opencode_client.run_opencode: the executable and the argument vector *)

MaxFiles == 2

\* the names the model uses that hold no "/"
BareNames == {"opencode", "oc-nightly"}
\* line 65: "/" in candidate
HasSlash(candidate) == candidate \notin BareNames

WellKnownBins == <<"/usr/local/bin/opencode", "/usr/bin/opencode">>

\* the regular files with the execute permission
ExecutableFiles ==
    { "/usr/local/bin/opencode", "/usr/bin/opencode", "/opt/oc/opencode",
      "/home/u/bin/opencode", "/home/u/bin/oc-nightly" }
\* PATH of the merged environment, as its directories
Paths == { <<>>, <<"/home/u/bin">>, <<"/home/u/bin", "/usr/bin">> }
\* OPENCODE_BIN of the env argument and of the process; "" when unset
EnvBins == {"", "/opt/oc/opencode", "oc-nightly"}
OsBins == {"", "/opt/oc/opencode"}
\* OPENCODE_LOG_LEVEL; "" when unset
RawLogLevels == {"", " debug "}
Messages == {"Review this pull request.", "--file", "--print-logs", "/etc/passwd"}
FilePaths == {"/tmp/ctx/pr.diff", "/tmp/ctx/repo_index.md"}

\* shutil.which(name, path=PATH): the first directory of PATH that holds an
\* executable file of that name; "" for None
RECURSIVE Which(_, _, _)
Which(name, path, exec_files) ==
    IF path = <<>> THEN ""
    ELSE IF (Head(path) \o "/" \o name) \in exec_files THEN Head(path) \o "/" \o name
    ELSE Which(name, Tail(path), exec_files)

\* the env argument is not looked at
ConfiguredBin_IgnoresEnvArgument(env_bin, os_bin) ==
    IF os_bin # "" THEN os_bin ELSE "opencode"
\* lines 149-151: env.get("OPENCODE_BIN") or os.getenv("OPENCODE_BIN", "") or "opencode"
ConfiguredBin(env_bin, os_bin) ==
    IF env_bin # "" THEN env_bin ELSE IF os_bin # "" THEN os_bin ELSE "opencode"

\* the well-known locations tried after every configured name
Candidates_AlwaysWellKnown(configured_bin) == <<configured_bin>> \o WellKnownBins

\* lines 55-62
Candidates(configured_bin) ==
    <<configured_bin>> \o (IF configured_bin = "opencode" THEN WellKnownBins ELSE <<>>)

\* lines 64-73: the loop over the candidates; "" when it ends without return
RECURSIVE FirstResolved(_, _, _)
FirstResolved(candidates, path, exec_files) ==
    IF candidates = <<>> THEN ""
    ELSE LET candidate == Head(candidates)
         IN  IF HasSlash(candidate)
             THEN IF candidate \in exec_files THEN candidate
                  ELSE FirstResolved(Tail(candidates), path, exec_files)
             ELSE IF Which(candidate, path, exec_files) # ""
                  THEN Which(candidate, path, exec_files)
                  ELSE FirstResolved(Tail(candidates), path, exec_files)

\* lines 54-78; "" stands for the RuntimeError
_resolve_opencode_bin(path, exec_files, configured_bin) ==
    FirstResolved(Candidates(configured_bin), path, exec_files)

\* `sub in text` on two str values
InText(sub, text) ==
    \E i \in 1..(Len(text) - Len(sub) + 1) : SubSeq(text, i, i + Len(sub) - 1) = sub

BinNotFoundMsg ==
    "OpenCode binary not found. Set OPENCODE_BIN or ensure it is installed and on PATH."

\* lines 171-173: (raw or "INFO").strip().upper(), INFO unless a known level
LogLevel(raw) == IF raw = " debug " THEN "DEBUG" ELSE "INFO"

InArgs(x, args) == \E i \in 1..Len(args) : args[i] = x

\* list.insert(i, x), i counted from 0
ListInsert(s, i, x) ==
    LET k == IF i < Len(s) THEN i ELSE Len(s)
    IN  SubSeq(s, 1, k) \o <<x>> \o SubSeq(s, k + 1, Len(s))

\* lines 158-159
RECURSIVE FileArgs(_)
FileArgs(files) ==
    IF files = <<>> THEN <<>>
    ELSE <<"--file", Head(files)>> \o FileArgs(Tail(files))

\* the message appended without the separator
BaseArgs_NoSeparator(opencode_bin, files, message) ==
    <<opencode_bin, "run", "--format", "json">> \o FileArgs(files) \o <<message>>

\* lines 157-163
BaseArgs(opencode_bin, files, message) ==
    <<opencode_bin, "run", "--format", "json">> \o FileArgs(files) \o <<"--", message>>

\* lines 180-184
WithLogFlags(args, log_level) ==
    LET a1 == IF ~InArgs("--print-logs", args)
              THEN ListInsert(args, 2, "--print-logs") ELSE args
    IN  IF ~InArgs("--log-level", a1)
        THEN ListInsert(ListInsert(a1, 3, "--log-level"), 4, log_level)
        ELSE a1

NoCommand ==
    [pc |-> "idle", env_bin |-> "", os_bin |-> "", path |-> <<>>, exec_files |-> {},
     raw_log_level |-> "", message |-> "", files |-> <<>>,
     opencode_bin |-> "", args |-> <<>>, started |-> FALSE, error |-> ""]

\* lines 149-155: the executable is resolved, or run_opencode raises
ResolveBin ==
    /\ oc_cmd.pc = "resolve"
    /\ LET opencode_bin ==
               _resolve_opencode_bin(oc_cmd.path, oc_cmd.exec_files,
                                     ConfiguredBin(oc_cmd.env_bin, oc_cmd.os_bin))
       IN  oc_cmd' = IF opencode_bin = ""
                     THEN [oc_cmd EXCEPT !.pc = "raised", !.error = BinNotFoundMsg]
                     ELSE [oc_cmd EXCEPT !.pc = "args", !.opencode_bin = opencode_bin]
    /\ UNCHANGED <<pipeline_vars, token_call, oc_run, diff_fetch, zip_extract, repo_index, review_ctx, transcript, sweep_call, webhook, reaction, oc_auth, pr_files>>

\* lines 157-195: the argument vector is built and subprocess.run called
StartProcess ==
    /\ oc_cmd.pc = "args"
    /\ oc_cmd' = [oc_cmd EXCEPT
                    !.pc = "started",
                    !.started = TRUE,
                    !.args = WithLogFlags(BaseArgs(oc_cmd.opencode_bin, oc_cmd.files,
                                                   oc_cmd.message),
                                          LogLevel(oc_cmd.raw_log_level))]
    /\ UNCHANGED <<pipeline_vars, token_call, oc_run, diff_fetch, zip_extract, repo_index, review_ctx, transcript, sweep_call, webhook, reaction, oc_auth, pr_files>>

----------------------------------------------------------------------------
(* github.fetch_pull_request_diff *)

MaxPrFiles == 2

\* a response to the GET of one representation: status, whether the body is
\* JSON (content type or leading brace), the body as lines
Representation(status, json, text) == [status |-> status, json |-> json, text |-> text]
DiffBody == <<"diff --git a/foo.py b/foo.py", "--- a/foo.py", "+++ b/foo.py", "@@ -1 +1 @@">>
PatchBody == <<"From 3f2a Mon Sep 17 00:00:00 2001", "Subject: [PATCH] fix", "---">>
JsonBody == <<"{'message': 'Not Acceptable'}">>
DiffResponses ==
    { Representation(c, FALSE, <<>>) : c \in {406, 415, 501, 500} }
        \cup { Representation(200, FALSE, DiffBody), Representation(200, TRUE, JsonBody) }
PatchResponses ==
    { Representation(c, FALSE, <<>>) : c \in {406, 415, 501, 404} }
        \cup { Representation(200, FALSE, PatchBody), Representation(200, TRUE, JsonBody) }

\* response.reason_phrase
ReasonPhrase(status) ==
    CASE status = 200 -> "OK"
      [] status = 404 -> "Not Found"
      [] status = 406 -> "Not Acceptable"
      [] status = 415 -> "Unsupported Media Type"
      [] status = 500 -> "Internal Server Error"
      [] status = 501 -> "Not Implemented"
      [] OTHER -> ""

\* a record of the file-list endpoint; "" and <<>> for a missing key
PrFile(filename, status, previous_filename, patch) ==
    [filename |-> filename, status |-> status,
     previous_filename |-> previous_filename, patch |-> patch]
PrFiles ==
    { PrFile("foo.py", "modified", "", <<"@@ -1 +1 @@", "-print('a')", "+print('b')">>),
      PrFile("new.py", "added", "", <<"@@ -0,0 +1 @@", "+x = 1">>),
      PrFile("old.py", "removed", "", <<>>),
      PrFile("b.py", "renamed", "a.py", <<>>),
      PrFile("", "modified", "", <<"@@ -2 +2 @@">>) }

\* what list_pull_request_files does: raise, or return the records
FileListings ==
    { [raised |-> TRUE, files |-> <<>>] }
        \cup { [raised |-> FALSE, files |-> fs] :
                 fs \in UNION { [1..n -> PrFiles] : n \in 0..MaxPrFiles } }

NoPatchLine ==
    "(no patch available for this file - possibly binary, renamed without changes, or too large)"

\* the new path on both sides of every header
RenderFile_NewPathOnly(item) ==
    IF item.filename = "" THEN <<>>
    ELSE <<"diff --git a/" \o item.filename \o " b/" \o item.filename,
           "--- a/" \o item.filename, "+++ b/" \o item.filename>>
         \o (IF item.patch # <<>> THEN item.patch ELSE <<NoPatchLine>>)
         \o <<"">>

\* lines 343-386: the parts one record adds; none without a filename
RenderFile(item) ==
    IF item.filename = "" THEN <<>>
    ELSE LET renamed == item.status = "renamed" /\ item.previous_filename # ""
             old_path == IF renamed THEN item.previous_filename ELSE item.filename
             new_path == item.filename
         IN  <<"diff --git a/" \o old_path \o " b/" \o new_path>>
             \o (IF renamed
                 THEN <<"rename from " \o item.previous_filename,
                        "rename to " \o item.filename>>
                 ELSE <<>>)
             \o (CASE item.status = "added" -> <<"--- /dev/null", "+++ b/" \o new_path>>
                   [] item.status = "removed" -> <<"--- a/" \o old_path, "+++ /dev/null">>
                   [] OTHER -> <<"--- a/" \o old_path, "+++ b/" \o new_path>>)
             \o (IF item.patch # <<>> THEN item.patch ELSE <<NoPatchLine>>)
             \o <<"">>

RECURSIVE RenderParts(_)
RenderParts(files) ==
    IF files = <<>> THEN <<>>
    ELSE RenderFile(Head(files)) \o RenderParts(Tail(files))

\* "\n".join(parts).rstrip(): the lines without the empty ones at the end
RECURSIVE RStripLines(_)
RStripLines(lines) ==
    IF lines = <<>> THEN <<>>
    ELSE IF lines[Len(lines)] = "" THEN RStripLines(SubSeq(lines, 1, Len(lines) - 1))
    ELSE lines

\* lines 341-390
_render_pull_request_files_as_diff(files) == RStripLines(RenderParts(files))

\* lines 329-333
FallbackNote(status) ==
    "NOTE: GitHub did not return a unified PR diff; falling back to per-file patches from "
        \o "/pulls/{pull_number}/files (last status: "
        \o ToString(status) \o " " \o ReasonPhrase(status) \o ")."

NegotiationFailures == {406, 415, 501}

\* every error status moves on to the next representation
RepresentationStep_AnyErrorContinues(response) ==
    IF response.status >= 400 THEN "continue"
    ELSE IF response.json THEN "continue"
    ELSE "return"

\* lines 304-311: what one pass of the loop over the representations does
RepresentationStep(response) ==
    IF response.status \in NegotiationFailures THEN "continue"
    ELSE IF response.status >= 400 THEN "raise"
    ELSE IF response.json THEN "continue"
    ELSE "return"

NoDiffResult == [kind |-> "none", lines |-> <<>>, exc |-> "", status |-> 0]
DiffReturned(lines) == [NoDiffResult EXCEPT !.kind = "text", !.lines = lines]
\* raise_for_status
StatusRaised(status) ==
    [NoDiffResult EXCEPT !.kind = "raised", !.exc = "httpx.HTTPStatusError",
                         !.status = status]
NoDiffFetch ==
    [pc |-> "idle", diff |-> Representation(0, FALSE, <<>>),
     patch |-> Representation(0, FALSE, <<>>),
     listing |-> [raised |-> FALSE, files |-> <<>>],
     last_response |-> Representation(0, FALSE, <<>>), requested |-> <<>>,
     result |-> NoDiffResult]

\* one pass of the loop: the request is made (requested is the list of the
\* requests of the call), the response is kept as last_response, then the
\* pass returns the body, raises, or goes on to next
AfterRepresentation(response, next) ==
    LET step == RepresentationStep(response)
        sent == [diff_fetch EXCEPT !.requested = Append(@, diff_fetch.pc),
                                   !.last_response = response]
    IN  diff_fetch' =
          CASE step = "return" ->
                 [sent EXCEPT !.pc = "done", !.result = DiffReturned(response.text)]
            [] step = "raise" ->
                 [sent EXCEPT !.pc = "done", !.result = StatusRaised(response.status)]
            [] OTHER -> [sent EXCEPT !.pc = next]

\* lines 294-311, Accept: application/vnd.github.v3.diff
RequestDiff ==
    /\ diff_fetch.pc = "diff"
    /\ AfterRepresentation(diff_fetch.diff, "patch")
    /\ UNCHANGED <<pipeline_vars, token_call, oc_run, oc_cmd, zip_extract, repo_index, review_ctx, transcript, sweep_call, webhook, reaction, oc_auth, pr_files>>

\* lines 294-311, Accept: application/vnd.github.v3.patch
RequestPatch ==
    /\ diff_fetch.pc = "patch"
    /\ AfterRepresentation(diff_fetch.patch, "files")
    /\ UNCHANGED <<pipeline_vars, token_call, oc_run, oc_cmd, zip_extract, repo_index, review_ctx, transcript, sweep_call, webhook, reaction, oc_auth, pr_files>>

\* lines 313-338: the file list, the rendering, the note, or the raise
RenderFallback ==
    /\ diff_fetch.pc = "files"
    /\ LET diff_text == _render_pull_request_files_as_diff(diff_fetch.listing.files)
           last == diff_fetch.last_response
       IN  diff_fetch' =
             [diff_fetch EXCEPT
                !.pc = "done",
                !.requested = Append(@, "files"),
                !.result =
                   IF diff_fetch.listing.raised THEN StatusRaised(500)
                   ELSE IF diff_text # <<>>
                   THEN DiffReturned(<<FallbackNote(last.status), "">> \o diff_text)
                   ELSE IF last.status >= 400 THEN StatusRaised(last.status)
                   ELSE [NoDiffResult EXCEPT
                           !.kind = "raised", !.exc = "RuntimeError"]]
    /\ UNCHANGED <<pipeline_vars, token_call, oc_run, oc_cmd, zip_extract, repo_index, review_ctx, transcript, sweep_call, webhook, reaction, oc_auth, pr_files>>

----------------------------------------------------------------------------
(* tasks._extract_zipball_to_repo_dir *)

MaxEntries == 3
\* max_total_bytes, 512 MiB in the source, scaled
MaxTotalBytes == 4

\* a ZipInfo: the name as the components between its separators (a trailing
\* "" is a trailing separator, a leading "" a leading one), the separator
\* the archive wrote, and the declared size
ZipInfo(filename, sep, file_size) ==
    [filename |-> filename, sep |-> sep, file_size |-> file_size]
TopDir == "repo-abc"
ZipInfos ==
    { ZipInfo(<<TopDir, "a.py">>, "/", 2),
      ZipInfo(<<TopDir, "src", "b.py">>, "/", 3),
      ZipInfo(<<TopDir, "src", "">>, "/", 0),
      ZipInfo(<<TopDir, "big.bin">>, "/", 5),
      ZipInfo(<<TopDir, "sub", "..", "c.py">>, "/", 1),
      ZipInfo(<<TopDir, "..", "..", "evil">>, "/", 2),
      ZipInfo(<<"..", "evil2">>, "/", 1),
      ZipInfo(<<TopDir, "..", "..", "evil3">>, "\\", 1),
      ZipInfo(<<"", "etc", "passwd">>, "/", 1) }
RECURSIVE SeqsUpTo(_, _)
SeqsUpTo(S, n) ==
    IF n = 0 THEN { <<>> }
    ELSE LET shorter == SeqsUpTo(S, n - 1)
         IN  shorter \cup { Append(s, x) : s \in { t \in shorter : Len(t) = n - 1 }, x \in S }
Archives == SeqsUpTo(ZipInfos, MaxEntries)

\* name.endswith("/")
EndsWithSlash(components) ==
    components # <<>> /\ components[Len(components)] = ""
\* line 860: the names as the archive wrote them, directories left out; a
\* name written with backslashes has no "/" in it
RawEndsWithSlash(info) == info.sep = "/" /\ EndsWithSlash(info.filename)
\* name.startswith(first + "/") on a raw name
RawStartsWith(info, first) ==
    info.sep = "/" /\ Len(info.filename) > 1 /\ info.filename[1] = first
\* lines 862-865: the directory every name is under, "" when there is none
ArchivePrefix(infolist) ==
    LET names == SelectSeq(infolist, LAMBDA info : ~RawEndsWithSlash(info))
    IN  IF names = <<>> THEN ""
        ELSE LET first == IF names[1].sep = "/" THEN names[1].filename[1] ELSE "raw"
             IN  IF first # "" /\ \A k \in 1..Len(names) : RawStartsWith(names[k], first)
                 THEN first ELSE ""

\* str.lstrip("/") on the components
RECURSIVE LStripSlash(_)
LStripSlash(components) ==
    IF components # <<>> /\ Head(components) = "" /\ Len(components) > 1
    THEN LStripSlash(Tail(components))
    ELSE components
\* lines 871-875: the name relative to the workspace root
RelName(components, prefix) ==
    LStripSlash(IF prefix # "" /\ Len(components) > 1 /\ components[1] = prefix
                THEN Tail(components) ELSE components)

\* (repo_dir / rel_name).resolve(): the path under the root, and how many
\* levels above the root the name climbed
RECURSIVE ResolveFrom(_, _, _)
ResolveFrom(path, up, components) ==
    IF components = <<>> THEN [up |-> up, path |-> path]
    ELSE LET c == Head(components)
             rest == Tail(components)
         IN  IF c = ".."
             THEN IF path = <<>> THEN ResolveFrom(<<>>, up + 1, rest)
                  ELSE ResolveFrom(SubSeq(path, 1, Len(path) - 1), up, rest)
             ELSE IF up > 0 THEN ResolveFrom(path, up, rest)
             ELSE ResolveFrom(Append(path, c), up, rest)
Resolve(rel_name) == ResolveFrom(<<>>, 0, rel_name)
\* target.is_relative_to(repo_dir_resolved)
IsRelativeToRoot(target) == target.up = 0

OverBudget_OffByOne(extracted_bytes, max_total_bytes) == extracted_bytes - 1 > max_total_bytes
\* line 880
OverBudget(extracted_bytes, max_total_bytes) == extracted_bytes > max_total_bytes

NoExtract ==
    [pc |-> "idle", infolist |-> <<>>, prefix |-> "", i |-> 0, extracted_bytes |-> 0,
     files |-> {}, escaped |-> {}, wrote |-> {}, broke |-> FALSE]

\* lines 886-888: the copy to the target, wherever the target is
WriteTarget(st, target, info) ==
    IF target.up = 0
    THEN [st EXCEPT !.files = { f \in @ : f.path # target.path }
                                 \cup { [path |-> target.path, size |-> info.file_size] },
                    !.wrote = @ \cup { st.i }]
    ELSE [st EXCEPT !.escaped = @ \cup { info.filename }, !.wrote = @ \cup { st.i }]

\* lines 867-888: one pass of the loop over zf.infolist()
LoopBody(st, info) ==
    LET name == info.filename
        rel_name == RelName(name, st.prefix)
        total == st.extracted_bytes + info.file_size
        target == Resolve(rel_name)
        next == [st EXCEPT !.i = @ + 1]
    IN  IF name = <<>> \/ EndsWithSlash(name) THEN next
        ELSE IF rel_name = <<>> \/ rel_name = <<"">> THEN next
        ELSE IF OverBudget(total, MaxTotalBytes)
        THEN [st EXCEPT !.extracted_bytes = total, !.pc = "done", !.broke = TRUE]
        ELSE IF ~IsRelativeToRoot(target)
        THEN [next EXCEPT !.extracted_bytes = total]
        ELSE [WriteTarget(st, target, info) EXCEPT !.extracted_bytes = total, !.i = @ + 1]

\* lines 859-865: the archive is opened, the common directory found
OpenZip ==
    /\ zip_extract.pc = "open"
    /\ zip_extract' = [zip_extract EXCEPT !.pc = "loop", !.i = 1,
                                          !.prefix = ArchivePrefix(zip_extract.infolist)]
    /\ UNCHANGED <<pipeline_vars, token_call, oc_run, oc_cmd, diff_fetch, repo_index, review_ctx, transcript, sweep_call, webhook, reaction, oc_auth, pr_files>>

ExtractInfo ==
    /\ zip_extract.pc = "loop"
    /\ zip_extract.i <= Len(zip_extract.infolist)
    /\ zip_extract' = LoopBody(zip_extract, zip_extract.infolist[zip_extract.i])
    /\ UNCHANGED <<pipeline_vars, token_call, oc_run, oc_cmd, diff_fetch, repo_index, review_ctx, transcript, sweep_call, webhook, reaction, oc_auth, pr_files>>

\* the loop ran out of entries
CloseZip ==
    /\ zip_extract.pc = "loop"
    /\ zip_extract.i > Len(zip_extract.infolist)
    /\ zip_extract' = [zip_extract EXCEPT !.pc = "done"]
    /\ UNCHANGED <<pipeline_vars, token_call, oc_run, oc_cmd, diff_fetch, repo_index, review_ctx, transcript, sweep_call, webhook, reaction, oc_auth, pr_files>>

\* the whole call on an archive
RECURSIVE ExtractFrom(_)
ExtractFrom(st) ==
    IF st.pc # "loop" THEN st
    ELSE IF st.i > Len(st.infolist) THEN [st EXCEPT !.pc = "done"]
    ELSE ExtractFrom(LoopBody(st, st.infolist[st.i]))
Extraction(infolist) ==
    ExtractFrom([NoExtract EXCEPT !.pc = "loop", !.i = 1, !.infolist = infolist,
                                  !.prefix = ArchivePrefix(infolist)])

----------------------------------------------------------------------------
(* tasks._render_repo_index_markdown *)

\* max_paths, 8,000 in the source, scaled
MaxPaths == 2

\* a path or a name is the sequence of its characters; Python compares
\* strings by the code points of their characters
CodePoints ==
    { <<"-", 45>>, <<".", 46>>, <<"/", 47>>, <<"_", 95>>, <<"a", 97>>, <<"b", 98>>, <<"c", 99>>, <<"d", 100>>, <<"e", 101>>, <<"f", 102>>, <<"g", 103>>, <<"h", 104>>, <<"i", 105>>, <<"j", 106>>, <<"l", 108>>, <<"m", 109>>, <<"n", 110>>, <<"o", 111>>, <<"p", 112>>, <<"r", 114>>, <<"s", 115>>, <<"t", 116>>, <<"u", 117>>, <<"v", 118>>, <<"x", 120>>, <<"y", 121>> }
CodePoint(c) == (CHOOSE p \in CodePoints : p[1] = c)[2]
RECURSIVE StrLess(_, _)
StrLess(a, b) ==
    IF b = <<>> THEN FALSE
    ELSE IF a = <<>> THEN TRUE
    ELSE IF Head(a) = Head(b) THEN StrLess(Tail(a), Tail(b))
    ELSE CodePoint(Head(a)) < CodePoint(Head(b))

\* lines 920-934
IgnoredDirs ==
    { <<".", "g", "i", "t">>,
      <<".", "h", "g">>,
      <<".", "s", "v", "n">>,
      <<"n", "o", "d", "e", "_", "m", "o", "d", "u", "l", "e", "s">>,
      <<".", "v", "e", "n", "v">>,
      <<"v", "e", "n", "v">>,
      <<"_", "_", "p", "y", "c", "a", "c", "h", "e", "_", "_">>,
      <<".", "m", "y", "p", "y", "_", "c", "a", "c", "h", "e">>,
      <<".", "p", "y", "t", "e", "s", "t", "_", "c", "a", "c", "h", "e">>,
      <<".", "r", "u", "f", "f", "_", "c", "a", "c", "h", "e">>,
      <<"d", "i", "s", "t">>,
      <<"b", "u", "i", "l", "d">>,
      <<".", "t", "o", "x">> }
\* the regular files a snapshot may hold, by their path under the root
TreeFiles ==
    { <<"a", ".", "p", "y">>,
      <<"a", "-", "b", "/", "c", ".", "p", "y">>,
      <<"a", "/", "d", ".", "p", "y">>,
      <<".", "g", "i", "t", "/", "c", "o", "n", "f", "i", "g">>,
      <<"a", "/", "b", "u", "i", "l", "d", "/", "o", ".", "j", "s">>,
      <<"n", "o", "d", "e", "_", "m", "o", "d", "u", "l", "e", "s", "/", "m", ".", "j", "s">>,
      <<"b", "u", "i", "l", "d", ".", "p", "y">> }
Trees == SUBSET TreeFiles

\* the names of the directories a path goes through, in order
RECURSIVE DirsFrom(_, _)
DirsFrom(name, rest) ==
    IF rest = <<>> THEN <<>>
    ELSE IF Head(rest) = "/" THEN <<name>> \o DirsFrom(<<>>, Tail(rest))
    ELSE DirsFrom(Append(name, Head(rest)), Tail(rest))
DirsOf(path) == DirsFrom(<<>>, path)

Walked_TopLevelOnly(path) ==
    \A k \in 1..Len(DirsOf(path)) : k = 1 => DirsOf(path)[k] \notin IgnoredDirs
\* lines 915-935: os.walk comes to the file when no directory above it was
\* taken out of dirs
Walked(path) == \A k \in 1..Len(DirsOf(path)) : DirsOf(path)[k] \notin IgnoredDirs

\* list.sort() of strings
RECURSIVE InsertSorted(_, _)
InsertSorted(sorted, p) ==
    IF sorted = <<>> THEN <<p>>
    ELSE IF StrLess(p, Head(sorted)) THEN <<p>> \o sorted
    ELSE <<Head(sorted)>> \o InsertSorted(Tail(sorted), p)
RECURSIVE SortPaths(_)
SortPaths(paths) ==
    IF paths = <<>> THEN <<>>
    ELSE InsertSorted(SortPaths(Tail(paths)), Head(paths))

\* a line of the index
IndexLine(kind, path, n) == [kind |-> kind, path |-> path, n |-> n]
PathLines(paths) == [k \in 1..Len(paths) |-> IndexLine("path", paths[k], 0)]
\* lines 950-967
IndexLines(collected, max_paths) ==
    LET paths == SortPaths(collected)
    IN  <<IndexLine("title", <<>>, 0), IndexLine("blank", <<>>, 0),
          IndexLine("root", <<>>, 0), IndexLine("listed", <<>>, Len(paths)),
          IndexLine("blank", <<>>, 0), IndexLine("paths", <<>>, 0),
          IndexLine("blank", <<>>, 0)>>
        \o (IF paths = <<>> THEN <<IndexLine("no files found", <<>>, 0)>>
            ELSE PathLines(paths))
        \o (IF Len(paths) >= max_paths
            THEN <<IndexLine("blank", <<>>, 0), IndexLine("truncated", <<>>, max_paths)>>
            ELSE <<>>)

NoIndex == [pc |-> "idle", tree |-> {}, paths |-> <<>>, lines |-> <<>>]

\* lines 937-948: os.walk yields the files of a directory in the order of
\* os.scandir, which is arbitrary: any file not yet come to may be the next;
\* it is appended, and the walk stops at max_paths
WalkFile ==
    /\ repo_index.pc = "walk"
    /\ \E path \in repo_index.tree :
          /\ Walked(path)
          /\ \A k \in 1..Len(repo_index.paths) : repo_index.paths[k] # path
          /\ LET paths == Append(repo_index.paths, path)
             IN  repo_index' =
                   [repo_index EXCEPT !.paths = paths,
                                      !.pc = IF Len(paths) >= MaxPaths THEN "render" ELSE "walk"]
    /\ UNCHANGED <<pipeline_vars, token_call, oc_run, oc_cmd, diff_fetch, zip_extract, review_ctx, transcript, sweep_call, webhook, reaction, oc_auth, pr_files>>

\* os.walk is exhausted
WalkEnds ==
    /\ repo_index.pc = "walk"
    /\ \A path \in repo_index.tree :
          Walked(path) => \E k \in 1..Len(repo_index.paths) : repo_index.paths[k] = path
    /\ repo_index' = [repo_index EXCEPT !.pc = "render"]
    /\ UNCHANGED <<pipeline_vars, token_call, oc_run, oc_cmd, diff_fetch, zip_extract, review_ctx, transcript, sweep_call, webhook, reaction, oc_auth, pr_files>>

\* lines 950-967
RenderIndex ==
    /\ repo_index.pc = "render"
    /\ repo_index' = [repo_index EXCEPT !.pc = "done",
                                        !.lines = IndexLines(repo_index.paths, MaxPaths)]
    /\ UNCHANGED <<pipeline_vars, token_call, oc_run, oc_cmd, diff_fetch, zip_extract, review_ctx, transcript, sweep_call, webhook, reaction, oc_auth, pr_files>>

----------------------------------------------------------------------------
(* tasks.run_pr_review: the diff excerpt and the prompt *)

MaxDiffLen == 5
\* max_diff_chars, 160_000 in the source, scaled
MaxDiffChars == 3

\* a diff text is the sequence of its characters
DiffChars == { "+", "-" }
DiffTexts == SeqsUpTo(DiffChars, MaxDiffLen)

FirstChars_Tail(text, n) == SubSeq(text, Len(text) - n + 1, Len(text))
\* diff_text[:max_diff_chars]
FirstChars(text, n) == SubSeq(text, 1, n)

\* lines 120-122, as the lines of the prompt it adds
DiffNote(max_diff_chars) ==
    <<"", "", "NOTE: Diff truncated to " \o ToString(max_diff_chars) \o " characters for review.">>
\* lines 118-124
TruncateForReview(diff_text, max_diff_chars) ==
    IF Len(diff_text) > max_diff_chars
    THEN [diff_note |-> DiffNote(max_diff_chars), diff_text |-> FirstChars(diff_text, max_diff_chars)]
    ELSE [diff_note |-> <<>>, diff_text |-> diff_text]

\* lines 148-152
RulesTexts == { <<"- (no rules configured)">>, <<"- [high] Tests: every change has a test">> }
\* lines 154-171
ReviewPrompt(rules_text, diff_note) ==
    <<"You are an AI code reviewer responding as a GitHub PR review comment.",
      "Be crisp and actionable. Prefer pointing to specific files/lines.",
      "",
      "Context files:",
      "- pull_request.diff (the PR diff)",
      "- repo_snapshot.md (repo snapshot metadata)",
      "- repo_index.md (full file listing)",
      "You can read any file in the repository via the OpenCode project workspace.",
      "",
      "Project rules / preferences:">>
    \o rules_text
    \o <<"",
         "Task:",
         "- Review the attached PR diff.",
         "- Use the attached repository snapshot to confirm context when needed.",
         "- Call out correctness, security, performance, and maintainability issues.",
         "- If something is uncertain, ask a question instead of guessing.",
         "- Output Markdown suitable for a single GitHub comment.">>
    \o diff_note

NoContext ==
    [pc |-> "idle", fetched |-> <<>>, rules_text |-> <<>>, diff_text |-> <<>>,
     diff_note |-> <<>>, prompt |-> <<>>,
     agent |-> [made |-> FALSE, message |-> <<>>, pull_request_diff |-> <<>>]]

\* lines 118-124
TruncateDiff ==
    /\ review_ctx.pc = "truncate"
    /\ LET cut == TruncateForReview(review_ctx.fetched, MaxDiffChars)
       IN  review_ctx' = [review_ctx EXCEPT !.pc = "prompt", !.diff_text = cut.diff_text,
                                            !.diff_note = cut.diff_note]
    /\ UNCHANGED <<pipeline_vars, token_call, oc_run, oc_cmd, diff_fetch, zip_extract, repo_index, transcript, sweep_call, webhook, reaction, oc_auth, pr_files>>

\* lines 126-171
ComposePrompt ==
    /\ review_ctx.pc = "prompt"
    /\ review_ctx' = [review_ctx EXCEPT
                         !.pc = "invoke",
                         !.prompt = ReviewPrompt(review_ctx.rules_text, review_ctx.diff_note)]
    /\ UNCHANGED <<pipeline_vars, token_call, oc_run, oc_cmd, diff_fetch, zip_extract, repo_index, transcript, sweep_call, webhook, reaction, oc_auth, pr_files>>

\* lines 173-199: pull_request.diff is written and attached, the prompt is
\* the message
AttachAndInvoke ==
    /\ review_ctx.pc = "invoke"
    /\ review_ctx' = [review_ctx EXCEPT
                         !.pc = "done",
                         !.agent = [made |-> TRUE, message |-> review_ctx.prompt,
                                    pull_request_diff |-> review_ctx.diff_text]]
    /\ UNCHANGED <<pipeline_vars, token_call, oc_run, oc_cmd, diff_fetch, zip_extract, repo_index, transcript, sweep_call, webhook, reaction, oc_auth, pr_files>>

----------------------------------------------------------------------------
(* tasks._render_conversation_markdown *)

MaxMessages == 4
\* limit, 30 in the source, scaled
ConversationLimit == 2

\* the pull request of the call, and another one of the same table
ThisPullRequest == "pr-1"
PullRequests == { ThisPullRequest, "pr-2" }
\* a ChatMessage row; rows are created one at a time, created_at is the
\* time of creation
ChatRow(pull_request, is_hidden) ==
    [pull_request |-> pull_request, is_hidden |-> is_hidden,
     author |-> "bob", body |-> <<" ", "@codereview", " ", "why?", "\n">>]
ChatRows == { ChatRow(p, h) : p \in PullRequests, h \in BOOLEAN }
\* the table in creation order: id and created_at are the position
ChatTable(rows) ==
    [k \in 1..Len(rows) |->
        [id |-> k, created_at |-> k, pull_request |-> rows[k].pull_request,
         is_hidden |-> rows[k].is_hidden, author |-> rows[k].author,
         body |-> rows[k].body]]
ChatTables == { ChatTable(rows) : rows \in SeqsUpTo(ChatRows, MaxMessages) }

\* ChatMessage.is_hidden, set by views.delete_mention_message
IsHidden(msg) == msg.is_hidden

RECURSIVE Reversed(_)
Reversed(s) == IF s = <<>> THEN <<>> ELSE Append(Reversed(Tail(s)), Head(s))
FirstN(s, n) == SubSeq(s, 1, IF Len(s) < n THEN Len(s) ELSE n)

\* lines 548-551: the rows of the pull request that pass the filter, by
\* created_at
Filtered(table, pull_request, upto) ==
    SelectSeq(table, LAMBDA msg :
        /\ msg.pull_request = pull_request
        /\ ~IsHidden(msg)
        /\ msg.created_at <= upto.created_at)

Window_Oldest(filtered, limit) == FirstN(filtered, limit)
\* lines 552-555: order_by("-created_at")[:limit], reversed
Window(filtered, limit) == Reversed(FirstN(Reversed(filtered), limit))

\* a line of the transcript
ConversationLine(kind, id, text) == [kind |-> kind, id |-> id, text |-> text]
RECURSIVE MessageLines(_)
MessageLines(ordered) ==
    IF ordered = <<>> THEN <<>>
    ELSE <<ConversationLine("heading", Head(ordered).id, <<Head(ordered).author>>),
           ConversationLine("blank", 0, <<>>),
           ConversationLine("body", Head(ordered).id, Strip(Head(ordered).body)),
           ConversationLine("blank", 0, <<>>)>>
         \o MessageLines(Tail(ordered))
\* "\n".join(lines).strip(): the lines without the empty ones at the end
RECURSIVE DropBlankEnd(_)
DropBlankEnd(lines) ==
    IF lines = <<>> THEN <<>>
    ELSE IF lines[Len(lines)].text = <<>> /\ lines[Len(lines)].kind \in {"blank", "body"}
    THEN DropBlankEnd(SubSeq(lines, 1, Len(lines) - 1))
    ELSE lines
\* lines 557-568
ConversationLines(ordered) ==
    DropBlankEnd(<<ConversationLine("title", Len(ordered), <<>>),
                  ConversationLine("blank", 0, <<>>),
                  ConversationLine("pr", 0, <<>>),
                  ConversationLine("blank", 0, <<>>)>>
                \o MessageLines(ordered))

NoTranscript == [pc |-> "idle", table |-> <<>>, upto |-> 0, ordered |-> <<>>, lines |-> <<>>]

\* lines 547-555
QueryMessages ==
    /\ transcript.pc = "query"
    /\ transcript' =
          [transcript EXCEPT
              !.pc = "render",
              !.ordered = Window(Filtered(transcript.table, ThisPullRequest,
                                          transcript.table[transcript.upto]),
                                 ConversationLimit)]
    /\ UNCHANGED <<pipeline_vars, token_call, oc_run, oc_cmd, diff_fetch, zip_extract, repo_index, review_ctx, sweep_call, webhook, reaction, oc_auth, pr_files>>

\* lines 557-568
RenderConversation ==
    /\ transcript.pc = "render"
    /\ transcript' = [transcript EXCEPT !.pc = "done",
                                        !.lines = ConversationLines(transcript.ordered)]
    /\ UNCHANGED <<pipeline_vars, token_call, oc_run, oc_cmd, diff_fetch, zip_extract, repo_index, review_ctx, sweep_call, webhook, reaction, oc_auth, pr_files>>

----------------------------------------------------------------------------
(* views._mark_stale_review_runs on any row of the table *)

\* the users whose dashboard request sweeps
SweepOwners == { "alice", "bob" }
Times == 0..MaxTime
\* the rows a ReviewRun table may hold: written by the tasks, by an earlier
\* sweep, or through the admin site (a running row without started_at)
RunRows ==
    { [NoRun EXCEPT !.exists = TRUE, !.owner = o, !.status = STATUS_QUEUED,
                    !.created_at = c] : o \in SweepOwners, c \in Times }
    \cup { r \in { [NoRun EXCEPT !.exists = TRUE, !.owner = o, !.status = STATUS_RUNNING,
                                  !.created_at = c, !.started_at = s] :
                       o \in SweepOwners, c \in Times, s \in {NoTime} \cup Times } :
               r.started_at = NoTime \/ r.started_at >= r.created_at }
    \cup { [NoRun EXCEPT !.exists = TRUE, !.owner = o, !.status = STATUS_DONE,
                         !.created_at = c, !.started_at = c, !.finished_at = c,
                         !.summary = <<"LGTM">>] : o \in SweepOwners, c \in Times }
    \cup { [NoRun EXCEPT !.exists = TRUE, !.owner = o, !.status = STATUS_FAILED,
                         !.created_at = c, !.started_at = c, !.finished_at = c,
                         !.error_message = <<"Unknown error">>] :
             o \in SweepOwners, c \in Times }
LatestTime(row) ==
    CHOOSE t \in {row.created_at, row.started_at, row.finished_at} :
        \A u \in {row.created_at, row.started_at, row.finished_at} : u <= t

NoSweepCall == [pc |-> "idle", row |-> NoRun, owner |-> NoOwner, now |-> 0, after |-> NoRun]

\* lines 115-152
MarkStale ==
    /\ sweep_call.pc = "call"
    /\ sweep_call' =
          [sweep_call EXCEPT
              !.pc = "done",
              !.after = _mark_stale_review_runs(sweep_call.row, sweep_call.owner,
                                                sweep_call.now)]
    /\ UNCHANGED <<pipeline_vars, token_call, oc_run, oc_cmd, diff_fetch, zip_extract, repo_index, review_ctx, transcript, webhook, reaction, oc_auth, pr_files>>

----------------------------------------------------------------------------
(* github.verify_webhook_signature and views._github_webhook_impl *)

\* webhook secrets of the apps
Secrets == { "s1", "s2" }
\* what GitHub (or anyone else) delivers: the X-GitHub-Event header and the body
Deliveries ==
    { [event |-> "installation", body |-> "created"],
      [event |-> "pull_request", body |-> "opened"],
      [event |-> "issue_comment", body |-> "mention"],
      [event |-> "ping", body |-> "zen"] }
\* hmac.new(secret.encode(), body, hashlib.sha256).hexdigest(): one text of
\* ASCII hex digits for each key and body, different ones for different
\* pairs
HexDigest(secret, body) == "hmacsha256(" \o secret \o "," \o body \o ")"
\* tokens of a header value at most
MaxSigLen == 3
\* a character outside ASCII in the header
NonAscii == "e-acute"
SignatureTokens ==
    { "sha256", "sha1", "=", NonAscii }
    \cup { HexDigest(s, d.body) : s \in Secrets, d \in Deliveries }
\* the values of the X-Hub-Signature-256 header, <<>> when it is missing
Signatures == SeqsUpTo(SignatureTokens, MaxSigLen)

\* signature.startswith("sha256=")
StartsWithSha256(signature) ==
    Len(signature) >= 2 /\ signature[1] = "sha256" /\ signature[2] = "="
\* signature.split("=", 1)[1]
AfterFirstEquals(signature) ==
    LET first == CHOOSE k \in 1..Len(signature) :
                     signature[k] = "=" /\ \A j \in 1..(k - 1) : signature[j] # "="
    IN  SubSeq(signature, first + 1, Len(signature))
\* hmac.compare_digest on two str values: TypeError unless both are ASCII
compare_digest(expected, provided) ==
    IF \E k \in 1..Len(provided) : provided[k] = NonAscii THEN "TypeError"
    ELSE IF expected = provided THEN "True" ELSE "False"
\* lines 74-79
verify_webhook_signature(body, signature, secret) ==
    IF signature = <<>> \/ ~StartsWithSha256(signature) THEN "False"
    ELSE compare_digest(<<HexDigest(secret, body)>>, AfterFirstEquals(signature))

\* the rows the view creates or updates and the tasks it enqueues for an
\* accepted delivery (views.py 2147-2290)
RecordsFor(delivery, pr_known) ==
    CASE delivery.event = "installation" -> { "GithubInstallation", "GithubRepository" }
      [] delivery.event = "pull_request" ->
            { "GithubInstallation", "GithubRepository", "PullRequest", "ReviewRun" }
      [] delivery.event = "issue_comment" -> IF pr_known THEN { "ChatMessage" } ELSE {}
      [] OTHER -> {}
TasksFor(delivery, pr_known) ==
    CASE delivery.event = "pull_request" -> { "run_pr_review" }
      [] delivery.event = "issue_comment" ->
            IF pr_known THEN { "handle_chat_response" } ELSE {}
      [] OTHER -> {}

NoWebhook ==
    [pc |-> "idle", delivery |-> [event |-> "", body |-> ""], signature |-> <<>>,
     secret |-> "", pr_known |-> FALSE, verified |-> "none", status |-> 0,
     records |-> {}, queued |-> {}]

\* views.py 2119-2290: the whole view, for one request
GithubWebhook ==
    /\ webhook.pc = "received"
    /\ LET verified == verify_webhook_signature(webhook.delivery.body,
                                                webhook.signature, webhook.secret)
       IN  webhook' =
              CASE verified = "TypeError" ->
                      [webhook EXCEPT !.pc = "done", !.verified = verified, !.status = 500]
                [] verified = "False" ->
                      [webhook EXCEPT !.pc = "done", !.verified = verified, !.status = 400]
                [] OTHER ->
                      [webhook EXCEPT
                          !.pc = "done", !.verified = verified, !.status = 200,
                          !.records = RecordsFor(webhook.delivery, webhook.pr_known),
                          !.queued = TasksFor(webhook.delivery, webhook.pr_known)]
    /\ UNCHANGED <<pipeline_vars, token_call, oc_run, oc_cmd, diff_fetch, zip_extract, repo_index, review_ctx, transcript, sweep_call, reaction, oc_auth, pr_files>>

----------------------------------------------------------------------------
(* github.add_reaction_to_issue_comment *)

\* calls made in one behaviour at most
MaxReactionCalls == 2
ReactionComments == { "comment-2", "comment-4" }
ReactionContents == { "eyes", "rocket" }
\* what the server answers: it creates a reaction that is not there, and
\* reports in one of several ways one that is; it may fail at any time
ReactionStatuses(present) ==
    (IF present THEN { 200, 409, 422 } ELSE { 201 }) \cup { 404, 500 }

\* no status is taken for "already reacted"
AlreadyReacted_Never(status) == FALSE
\* line 200: response.status_code == 422
AlreadyReacted(status) == status = 422

\* lines 198-202, for a response with this status
ReactionOutcome(status) ==
    IF AlreadyReacted(status) THEN "returned"
    ELSE IF RaisesForStatus(status) THEN "raised"
    ELSE "returned"

NoReaction == [on_server |-> {}, calls |-> <<>>]

\* lines 180-202: one call
AddReaction ==
    /\ Len(reaction.calls) < MaxReactionCalls
    /\ \E comment_id \in ReactionComments, content \in ReactionContents, token_ok \in BOOLEAN :
          LET r == <<comment_id, content>>
          IN  IF ~token_ok
              THEN \* line 189: get_installation_token raises
                   reaction' =
                      [reaction EXCEPT
                          !.calls = Append(@, [comment_id |-> comment_id, content |-> content,
                                               sent |-> FALSE, status |-> 0,
                                               outcome |-> "raised"])]
              ELSE \E status \in ReactionStatuses(r \in reaction.on_server) :
                      reaction' =
                         [on_server |-> IF status = 201 THEN reaction.on_server \cup {r}
                                        ELSE reaction.on_server,
                          calls |-> Append(reaction.calls,
                                           [comment_id |-> comment_id, content |-> content,
                                            sent |-> TRUE, status |-> status,
                                            outcome |-> ReactionOutcome(status)])]
    /\ UNCHANGED <<pipeline_vars, token_call, oc_run, oc_cmd, diff_fetch, zip_extract, repo_index, review_ctx, transcript, sweep_call, webhook, oc_auth, pr_files>>

----------------------------------------------------------------------------
(* opencode_client.run_opencode: the credentials file of a call *)

\* names tempfile may give to a directory under the temporary root
AuthDirNames == { "codereview-opencode-auth-a", "codereview-opencode-auth-b" }
AuthKeys == { "key-1", "key-2" }
\* the auth argument: None, or the entries to write
AuthArgs == { [given |-> FALSE, key |-> ""] } \cup { [given |-> TRUE, key |-> k] : k \in AuthKeys }
\* XDG_DATA_HOME of the worker's own environment
InheritedDataHomes == { "", "/root/.local/share" }
\* what subprocess.run does: the executable cannot be started, the process
\* outlives the timeout, or it ends
StartOutcomes == { "FileNotFoundError", "TimeoutExpired", "completed" }
\* what the process wrote
AuthOutputs == { "blank", "error event", "no text", "text" }

NoLaunch == [made |-> FALSE, xdg |-> "", auth_file |-> [exists |-> FALSE, mode |-> "", key |-> ""]]
NoAuthCall ==
    [pc |-> "idle", auth |-> [given |-> FALSE, key |-> ""], before |-> {}, dirs |-> {},
     files |-> {}, auth_home |-> "", xdg |-> "", write_ok |-> TRUE, bin_found |-> TRUE,
     start |-> "", output |-> "", launched |-> NoLaunch, result |-> "none", error |-> ""]

\* the file of a directory as the process finds it
AuthFileIn(a, dir) ==
    IF \E f \in a.files : f.dir = dir
    THEN LET f == CHOOSE g \in a.files : g.dir = dir
         IN  [exists |-> TRUE, mode |-> f.mode, key |-> f.key]
    ELSE [exists |-> FALSE, mode |-> "", key |-> ""]

\* the directory is left behind
CloseStack_Nothing(a) == a
\* line 140: leaving the with block closes the ExitStack, by return or by
\* exception; TemporaryDirectory removes the directory and what is in it
CloseStack(a) ==
    IF a.auth_home = "" THEN a
    ELSE [a EXCEPT !.dirs = @ \ {a.auth_home},
                   !.files = { f \in @ : f.dir # a.auth_home }]
AuthRaise(a, error) ==
    [CloseStack(a) EXCEPT !.pc = "done", !.result = "raised", !.error = error]
AuthReturn(a) ==
    [CloseStack(a) EXCEPT !.pc = "done", !.result = "returned"]

\* lines 137-147
EnterAuthHome ==
    /\ oc_auth.pc = "call"
    /\ IF ~oc_auth.auth.given
       THEN oc_auth' = [oc_auth EXCEPT !.pc = "resolve"]
       ELSE \E name \in AuthDirNames \ oc_auth.dirs :
               LET entered == [oc_auth EXCEPT !.dirs = @ \cup {name}, !.auth_home = name]
               IN  IF ~oc_auth.write_ok
                   THEN oc_auth' = AuthRaise(entered, "OSError")
                   ELSE oc_auth' =
                           [entered EXCEPT
                               !.pc = "resolve",
                               !.files = @ \cup { [dir |-> name, path |-> "opencode/auth.json",
                                                   mode |-> "0600", key |-> oc_auth.auth.key] },
                               !.xdg = name]
    /\ UNCHANGED <<pipeline_vars, token_call, oc_run, oc_cmd, diff_fetch, zip_extract, repo_index, review_ctx, transcript, sweep_call, webhook, reaction, pr_files>>

\* lines 149-155
AuthResolveBin ==
    /\ oc_auth.pc = "resolve"
    /\ oc_auth' = IF oc_auth.bin_found THEN [oc_auth EXCEPT !.pc = "run"]
                  ELSE AuthRaise(oc_auth, "OpenCode binary not found")
    /\ UNCHANGED <<pipeline_vars, token_call, oc_run, oc_cmd, diff_fetch, zip_extract, repo_index, review_ctx, transcript, sweep_call, webhook, reaction, pr_files>>

\* lines 157-213
AuthRunProcess ==
    /\ oc_auth.pc = "run"
    /\ LET launched == [made |-> oc_auth.start # "FileNotFoundError",
                        xdg |-> oc_auth.xdg,
                        auth_file |-> AuthFileIn(oc_auth, oc_auth.xdg)]
           ran == [oc_auth EXCEPT !.launched = launched]
       IN  oc_auth' =
              CASE oc_auth.start = "FileNotFoundError" ->
                      AuthRaise(ran, "OpenCode executable could not be started")
                [] oc_auth.start = "TimeoutExpired" -> AuthRaise(ran, "opencode timed out")
                [] OTHER -> [ran EXCEPT !.pc = "read"]
    /\ UNCHANGED <<pipeline_vars, token_call, oc_run, oc_cmd, diff_fetch, zip_extract, repo_index, review_ctx, transcript, sweep_call, webhook, reaction, pr_files>>

\* lines 215-281
AuthReadOutput ==
    /\ oc_auth.pc = "read"
    /\ oc_auth' =
          CASE oc_auth.output = "blank" -> AuthRaise(oc_auth, "opencode produced no output")
            [] oc_auth.output = "error event" -> AuthRaise(oc_auth, "error event")
            [] oc_auth.output = "no text" ->
                  AuthRaise(oc_auth, "opencode returned no assistant text")
            [] OTHER -> AuthReturn(oc_auth)
    /\ UNCHANGED <<pipeline_vars, token_call, oc_run, oc_cmd, diff_fetch, zip_extract, repo_index, review_ctx, transcript, sweep_call, webhook, reaction, pr_files>>

----------------------------------------------------------------------------
(* github.list_pull_request_files *)

\* per_page, 100 in the source, scaled
PerPage == 2
\* the limit argument at most
MaxLimit == 3
\* the page counter of the model stops here
MaxPage == 4

\* an element of a page: a record of a file (a dict) or any other JSON value
PageItems == { "record", "junk" }
\* the answers to the GET of one page: an error status, a body that is no
\* list, or a list of any length up to one more than asked for
PageResponses ==
    { [status |-> 500, list |-> FALSE, items |-> <<>>],
      [status |-> 200, list |-> FALSE, items |-> <<>>] }
    \cup { [status |-> 200, list |-> TRUE, items |-> items] :
             items \in SeqsUpTo(PageItems, PerPage + 1) }

\* lines 449-451: the dicts of a batch in its order, each named by the page
\* and its place in the page
RecordsOf(batch, page) ==
    LET places == SelectSeq([i \in 1..Len(batch) |-> i], LAMBDA i : batch[i] = "record")
    IN  [k \in 1..Len(places) |-> [page |-> page, place |-> places[k]]]

NoPrFilesCall ==
    [pc |-> "idle", limit |-> 0, page |-> 0, files |-> <<>>,
     last |-> [status |-> 0, list |-> FALSE, items |-> <<>>], requests |-> 0]

\* lines 439-456: one pass of the while loop
RequestPage ==
    /\ pr_files.pc = "loop"
    /\ \E response \in PageResponses :
          LET asked == [pr_files EXCEPT !.last = response,
                                        !.requests = IF @ < MaxPage THEN @ + 1 ELSE @]
              batch == response.items
              files == FirstN(pr_files.files \o RecordsOf(batch, pr_files.page),
                              pr_files.limit)
          IN  pr_files' =
                 IF RaisesForStatus(response.status)
                 THEN [asked EXCEPT !.pc = "raised"]
                 ELSE IF ~response.list \/ batch = <<>>
                 THEN [asked EXCEPT !.pc = "done"]
                 ELSE IF Len(batch) < PerPage
                 THEN [asked EXCEPT !.pc = "done", !.files = files]
                 ELSE [asked EXCEPT
                          !.files = files,
                          !.page = IF @ < MaxPage THEN @ + 1 ELSE @,
                          !.pc = IF Len(files) < pr_files.limit THEN "loop" ELSE "done"]
    /\ UNCHANGED <<pipeline_vars, token_call, oc_run, oc_cmd, diff_fetch, zip_extract, repo_index, review_ctx, transcript, sweep_call, webhook, reaction, oc_auth>>

----------------------------------------------------------------------------
(* Specification of the review pipeline *)

NoSnapIn == [head_sha |-> <<>>, git |-> [fail_at |-> "none", stderr |-> <<>>],
             zip |-> [fail_at |-> "none", msg |-> <<>>]]
NoSnapOut == [called |-> FALSE]

\* no library call is in progress
IdleToken == token_call = NoTokenCall
IdleRun == oc_run = NoOpencodeRun
IdleCommand == oc_cmd = NoCommand
IdleDiff == diff_fetch = NoDiffFetch
IdleExtract == zip_extract = NoExtract
IdleIndex == repo_index = NoIndex
IdleContext == review_ctx = NoContext
IdleTranscript == transcript = NoTranscript
IdleSweep == sweep_call = NoSweepCall
IdleWebhook == webhook = NoWebhook
IdleReaction == reaction = NoReaction
IdleAuth == oc_auth = NoAuthCall
IdlePrFiles == pr_files = NoPrFilesCall
LibInit == IdleToken /\ IdleRun /\ IdleCommand /\ IdleDiff /\ IdleExtract /\ IdleIndex /\ IdleContext /\ IdleTranscript /\ IdleSweep /\ IdleWebhook /\ IdleReaction /\ IdleAuth /\ IdlePrFiles

ReviewInit ==
    /\ now = 0
    /\ review_run = NoRun
    /\ review_comments = <<>>
    /\ issue_comment = NoComment
    /\ task = NoTask

ChatInit ==
    /\ chat_messages = <<>>
    /\ pr_comments = <<>>
    /\ chat = NoChat

Init ==
    /\ ReviewInit
    /\ ChatInit
    /\ tmp_dirs = {}
    /\ snap_in = NoSnapIn
    /\ snap_out = NoSnapOut
    /\ LibInit

TaskStep ==
    \/ StartTask
    \/ PostPlaceholder
    \/ CreateReviewComment
    \/ ResolveCredential
    \/ FetchToken
    \/ FetchPrJson
    \/ FetchDiff
    \/ PrepareSnapshot
    \/ InvokeAgent
    \/ EditComment
    \/ SaveComment
    \/ SaveRunDone
    \/ HandlerEdit
    \/ HandlerSaveComment
    \/ HandlerSaveRun

Next ==
    \/ QueueReview
    \/ TaskStep
    \/ Sweep
    \/ Tick

Spec == Init /\ [][Next]_vars

\* The clock of the model stops at MaxTime.  For liveness a run is created
\* and started only while enough hours are left for it to become stale.
Early == now + StaleRunningHours < MaxTime
NextLive ==
    \/ QueueReview /\ Early
    \/ TaskStep /\ (task.pc = "queued" => Early)
    \/ Sweep
    \/ Tick

\* Time passes and the users keep opening their dashboards: a sweep that
\* would change a row happens.  Nothing is assumed of the worker: the task
\* may never be taken or stop at any step.
SpecLive == Init /\ [][NextLive]_vars /\ WF_vars(Tick) /\ WF_vars(Sweep)

----------------------------------------------------------------------------
(* Specification of the two tasks of one pull request, review and chat,    *)
(* with no sweep and no passing of time.                                   *)

ChatStep ==
    \/ StartChat
    \/ ChatResolveCredential
    \/ ChatBuildContext
    \/ ChatFetchToken
    \/ ChatFetchPrJson
    \/ ChatFetchDiff
    \/ ChatPrepareSnapshot
    \/ ChatInvokeAgent
    \/ ChatPostReply
    \/ ChatSaveMessage
    \/ ChatHandlerPost

NextPipelines ==
    \/ QueueReview
    \/ TaskStep
    \/ RecordChatMessage
    \/ ChatStep

SpecPipelines == Init /\ [][NextPipelines]_vars

----------------------------------------------------------------------------
(* Specification of the chat tasks of one inbound comment, the task being   *)
(* delivered up to MaxChatRuns times.                                       *)

NextChat ==
    \/ RecordChatMessage
    \/ ChatStep
    \/ ChatAgain

SpecChat == Init /\ [][NextChat]_vars

----------------------------------------------------------------------------
(* Specification of _prepare_repo_snapshot alone: the inputs are drawn in  *)
(* the initial state, the call writes its result.                          *)

SnapInit ==
    /\ ReviewInit
    /\ ChatInit
    /\ tmp_dirs = {}
    /\ snap_in \in [head_sha : HeadShas, git : GitOutcomes, zip : ZipOutcomes]
    /\ snap_out = NoSnapOut
    /\ LibInit

CallPrepareSnapshot ==
    /\ ~snap_out.called
    /\ snap_out' = [called |-> TRUE,
                    result |-> _prepare_repo_snapshot(RepoFullName, snap_in.head_sha,
                                                      snap_in.git, snap_in.zip)]
    /\ UNCHANGED <<review_vars, snap_in, chat_vars, tmp_dirs, lib_vars>>

SnapNext == CallPrepareSnapshot

SpecSnapshot == SnapInit /\ [][SnapNext]_vars

----------------------------------------------------------------------------
(* Specification of one get_installation_token call *)

\* one call of get_installation_token against every sequence of outcomes of
\* its posts
\* no task is running
PipelinesIdle ==
    /\ ReviewInit
    /\ ChatInit
    /\ tmp_dirs = {}
    /\ snap_in = NoSnapIn
    /\ snap_out = NoSnapOut

TokenInit ==
    /\ PipelinesIdle
    /\ IdleRun
    /\ IdleCommand
    /\ IdleDiff
    /\ IdleExtract
    /\ IdleIndex
    /\ IdleContext
    /\ IdleTranscript
    /\ IdleSweep
    /\ IdleWebhook
    /\ IdleReaction
    /\ IdleAuth
    /\ IdlePrFiles
    /\ \E rs \in [1..max_attempts -> PostOutcomes] :
          token_call = [NoTokenCall EXCEPT !.pc = "post", !.responses = rs, !.attempt = 1]

TokenNext == TokenAttempt \/ TokenSleep \/ TokenAfterLoop

SpecToken == TokenInit /\ [][TokenNext]_vars

----------------------------------------------------------------------------
(* Specification of the end of one run_opencode call *)

\* the process has exited with every stdout of up to MaxLines lines
OutputInit ==
    /\ PipelinesIdle
    /\ IdleToken
    /\ IdleCommand
    /\ IdleDiff
    /\ IdleExtract
    /\ IdleIndex
    /\ IdleContext
    /\ IdleTranscript
    /\ IdleSweep
    /\ IdleWebhook
    /\ IdleReaction
    /\ IdleAuth
    /\ IdlePrFiles
    /\ \E stdout \in UNION { [1..n -> StdoutLines] : n \in 0..MaxLines },
          stderr \in Stderrs, returncode \in ReturnCodes :
          oc_run = [NoOpencodeRun EXCEPT !.pc = "exited", !.stdout = stdout,
                                         !.stderr = stderr, !.returncode = returncode]

OutputNext == ReadOutput

SpecOpencodeOutput == OutputInit /\ [][OutputNext]_vars

----------------------------------------------------------------------------
(* Specification of the start of one run_opencode call *)

CommandInit ==
    /\ PipelinesIdle
    /\ IdleToken
    /\ IdleRun
    /\ IdleDiff
    /\ IdleExtract
    /\ IdleIndex
    /\ IdleContext
    /\ IdleTranscript
    /\ IdleSweep
    /\ IdleWebhook
    /\ IdleReaction
    /\ IdleAuth
    /\ IdlePrFiles
    /\ \E env_bin \in EnvBins, os_bin \in OsBins, path \in Paths,
          exec_files \in SUBSET ExecutableFiles, raw \in RawLogLevels,
          message \in Messages,
          files \in UNION { [1..n -> FilePaths] : n \in 0..MaxFiles } :
          oc_cmd = [NoCommand EXCEPT !.pc = "resolve", !.env_bin = env_bin,
                                     !.os_bin = os_bin, !.path = path,
                                     !.exec_files = exec_files,
                                     !.raw_log_level = raw,
                                     !.message = message, !.files = files]

CommandNext == ResolveBin \/ StartProcess

SpecOpencodeCommand == CommandInit /\ [][CommandNext]_vars

----------------------------------------------------------------------------
(* Specification of one fetch_pull_request_diff call *)

DiffInit ==
    /\ PipelinesIdle
    /\ IdleToken
    /\ IdleRun
    /\ IdleCommand
    /\ IdleExtract
    /\ IdleIndex
    /\ IdleContext
    /\ IdleTranscript
    /\ IdleSweep
    /\ IdleWebhook
    /\ IdleReaction
    /\ IdleAuth
    /\ IdlePrFiles
    /\ \E d \in DiffResponses, p \in PatchResponses, l \in FileListings :
          diff_fetch = [NoDiffFetch EXCEPT !.pc = "diff", !.diff = d, !.patch = p,
                                           !.listing = l]

DiffNext == RequestDiff \/ RequestPatch \/ RenderFallback

SpecDiff == DiffInit /\ [][DiffNext]_vars

----------------------------------------------------------------------------
(* Specification of one _extract_zipball_to_repo_dir call *)

ExtractInit ==
    /\ PipelinesIdle
    /\ IdleToken
    /\ IdleRun
    /\ IdleCommand
    /\ IdleDiff
    /\ IdleIndex
    /\ IdleContext
    /\ IdleTranscript
    /\ IdleSweep
    /\ IdleWebhook
    /\ IdleReaction
    /\ IdleAuth
    /\ IdlePrFiles
    /\ \E a \in Archives :
          zip_extract = [NoExtract EXCEPT !.pc = "open", !.infolist = a]

ExtractNext == OpenZip \/ ExtractInfo \/ CloseZip

SpecExtract == ExtractInit /\ [][ExtractNext]_vars

----------------------------------------------------------------------------
(* Specification of one _render_repo_index_markdown call *)

IndexInit ==
    /\ PipelinesIdle
    /\ IdleToken
    /\ IdleRun
    /\ IdleCommand
    /\ IdleDiff
    /\ IdleExtract
    /\ IdleContext
    /\ IdleTranscript
    /\ IdleSweep
    /\ IdleWebhook
    /\ IdleReaction
    /\ IdleAuth
    /\ IdlePrFiles
    /\ \E t \in Trees : repo_index = [NoIndex EXCEPT !.pc = "walk", !.tree = t]

IndexNext == WalkFile \/ WalkEnds \/ RenderIndex

SpecIndex == IndexInit /\ [][IndexNext]_vars

----------------------------------------------------------------------------
(* Specification of the diff of one review on its way to the agent *)

ContextInit ==
    /\ PipelinesIdle
    /\ IdleToken
    /\ IdleRun
    /\ IdleCommand
    /\ IdleDiff
    /\ IdleExtract
    /\ IdleIndex
    /\ IdleTranscript
    /\ IdleSweep
    /\ IdleWebhook
    /\ IdleReaction
    /\ IdleAuth
    /\ IdlePrFiles
    /\ \E d \in DiffTexts, r \in RulesTexts :
          review_ctx = [NoContext EXCEPT !.pc = "truncate", !.fetched = d, !.rules_text = r]

ContextNext == TruncateDiff \/ ComposePrompt \/ AttachAndInvoke

SpecReviewContext == ContextInit /\ [][ContextNext]_vars

----------------------------------------------------------------------------
(* Specification of one _render_conversation_markdown call *)

TranscriptInit ==
    /\ PipelinesIdle
    /\ IdleToken
    /\ IdleRun
    /\ IdleCommand
    /\ IdleDiff
    /\ IdleExtract
    /\ IdleIndex
    /\ IdleContext
    /\ IdleSweep
    /\ IdleWebhook
    /\ IdleReaction
    /\ IdleAuth
    /\ IdlePrFiles
    /\ \E t \in ChatTables :
          \E upto \in { k \in 1..Len(t) : t[k].pull_request = ThisPullRequest } :
              transcript = [NoTranscript EXCEPT !.pc = "query", !.table = t, !.upto = upto]

TranscriptNext == QueryMessages \/ RenderConversation

SpecTranscript == TranscriptInit /\ [][TranscriptNext]_vars

----------------------------------------------------------------------------
(* Specification of one _mark_stale_review_runs call on any row *)

SweepInit ==
    /\ PipelinesIdle
    /\ IdleToken
    /\ IdleRun
    /\ IdleCommand
    /\ IdleDiff
    /\ IdleExtract
    /\ IdleIndex
    /\ IdleContext
    /\ IdleTranscript
    /\ IdleWebhook
    /\ IdleReaction
    /\ IdleAuth
    /\ IdlePrFiles
    /\ \E row \in RunRows, owner \in SweepOwners, t \in Times :
          /\ LatestTime(row) <= t
          /\ sweep_call = [NoSweepCall EXCEPT !.pc = "call", !.row = row,
                                              !.owner = owner, !.now = t]

SweepNext == MarkStale

SpecSweep == SweepInit /\ [][SweepNext]_vars

----------------------------------------------------------------------------
(* Specification of one webhook delivery *)

WebhookInit ==
    /\ PipelinesIdle
    /\ IdleToken
    /\ IdleRun
    /\ IdleCommand
    /\ IdleDiff
    /\ IdleExtract
    /\ IdleIndex
    /\ IdleContext
    /\ IdleTranscript
    /\ IdleSweep
    /\ IdleReaction
    /\ IdleAuth
    /\ IdlePrFiles
    /\ \E delivery \in Deliveries, signature \in Signatures, secret \in Secrets,
          pr_known \in BOOLEAN :
          webhook = [NoWebhook EXCEPT !.pc = "received", !.delivery = delivery,
                                      !.signature = signature, !.secret = secret,
                                      !.pr_known = pr_known]

WebhookNext == GithubWebhook

SpecWebhook == WebhookInit /\ [][WebhookNext]_vars

----------------------------------------------------------------------------
(* Specification of the add_reaction_to_issue_comment calls *)

ReactionInit ==
    /\ PipelinesIdle
    /\ IdleToken
    /\ IdleRun
    /\ IdleCommand
    /\ IdleDiff
    /\ IdleExtract
    /\ IdleIndex
    /\ IdleContext
    /\ IdleTranscript
    /\ IdleSweep
    /\ IdleWebhook
    /\ IdleAuth
    /\ IdlePrFiles
    /\ reaction = NoReaction

ReactionNext == AddReaction

SpecReaction == ReactionInit /\ [][ReactionNext]_vars

----------------------------------------------------------------------------
(* Specification of one run_opencode call and its data home *)

AuthInit ==
    /\ PipelinesIdle
    /\ IdleToken
    /\ IdleRun
    /\ IdleCommand
    /\ IdleDiff
    /\ IdleExtract
    /\ IdleIndex
    /\ IdleContext
    /\ IdleTranscript
    /\ IdleSweep
    /\ IdleWebhook
    /\ IdleReaction
    /\ IdlePrFiles
    /\ \E auth \in AuthArgs, before \in SUBSET { "codereview-opencode-auth-a" },
          xdg \in InheritedDataHomes, write_ok \in BOOLEAN, bin_found \in BOOLEAN,
          start \in StartOutcomes, output \in AuthOutputs :
          oc_auth = [NoAuthCall EXCEPT
                        !.pc = "call", !.auth = auth, !.before = before, !.dirs = before,
                        !.files = { [dir |-> d, path |-> "opencode/auth.json",
                                     mode |-> "0600", key |-> "key-0"] : d \in before },
                        !.xdg = xdg, !.write_ok = write_ok, !.bin_found = bin_found,
                        !.start = start, !.output = output]

AuthNext == EnterAuthHome \/ AuthResolveBin \/ AuthRunProcess \/ AuthReadOutput

SpecOpencodeAuth == AuthInit /\ [][AuthNext]_vars

----------------------------------------------------------------------------
(* Specification of one list_pull_request_files call.  The loop goes on as  *)
(* long as it can: every request is answered or times out.                  *)

PrFilesInit ==
    /\ PipelinesIdle
    /\ IdleToken
    /\ IdleRun
    /\ IdleCommand
    /\ IdleDiff
    /\ IdleExtract
    /\ IdleIndex
    /\ IdleContext
    /\ IdleTranscript
    /\ IdleSweep
    /\ IdleWebhook
    /\ IdleReaction
    /\ IdleAuth
    /\ \E limit \in 1..MaxLimit :
          pr_files = [NoPrFilesCall EXCEPT !.pc = "loop", !.limit = limit, !.page = 1]

PrFilesNext == RequestPage

SpecPrFiles == PrFilesInit /\ [][PrFilesNext]_vars /\ WF_vars(RequestPage)

----------------------------------------------------------------------------
(* Properties of the review pipeline, checked under Spec *)

Terminal == {STATUS_DONE, STATUS_FAILED}
AllowedTransitions ==
    { <<STATUS_QUEUED, STATUS_RUNNING>>, <<STATUS_RUNNING, STATUS_DONE>>,
      <<STATUS_RUNNING, STATUS_FAILED>> }

\* C1: the status of a ReviewRun changes only along queued->running,
\* running->done or running->failed, whatever the interleaving of the task
\* and the sweeps; a done or failed run keeps its status.
C1_StatusTransitions ==
    [][ (review_run.exists /\ review_run'.status # review_run.status)
        => <<review_run.status, review_run'.status>> \in AllowedTransitions ]_vars

\* C2: when run_pr_review has ended, by return or by an exception that left
\* it, the run it set to running is done or failed.
C2_NeverLeftRunning ==
    task.pc = "ended" => review_run.status \in Terminal

ReviewTexts == { Strip(text) : text \in AgentTexts }
FailureNotices ==
    { FailureBody(ErrorText(e)) :
        e \in ExcTexts \cup WriteErrTexts \cup {NoOwnerText, MissingKeyText} }

\* C3: once an execution that posted the placeholder and called the agent has
\* ended, the body of the GitHub comment is the review text or the failure
\* notice, whichever of the agent call and the comment edits failed.
C3_PlaceholderResolved ==
    (task.pc = "ended" /\ issue_comment.posted /\ task.agent.made)
        => issue_comment.body \in ReviewTexts \cup FailureNotices

\* C4: in every reachable state finished_at of a ReviewRun is set if and only
\* if its status is done or failed.
C4_FinishedIffTerminal ==
    review_run.exists
        => ((review_run.finished_at # NoTime) <=> (review_run.status \in Terminal))

\* C5: a run has at most one ReviewComment row; the row carries the id of the
\* posted placeholder comment, and the later writes change the body of that
\* row only.
C5_SingleReviewComment ==
    /\ Len(review_comments) <= 1
    /\ Len(review_comments) = 1
          => /\ issue_comment.posted
             /\ review_comments[1].github_comment_id = issue_comment.id
             /\ review_comments[1].body
                    \in {placeholder_body} \cup ReviewTexts \cup FailureNotices

C5_Witness ==
    /\ task.pc = "ended"
    /\ Len(review_comments) = 1
    /\ review_comments[1].github_comment_id = PlaceholderCommentId
    /\ review_comments[1].body \in ReviewTexts

\* C6: a run in status done has its GitHub comment edited to the text the
\* agent returned, and the body of its ReviewComment and its summary are that
\* same text.
C6_DoneMeansPublished ==
    review_run.status = STATUS_DONE
        => /\ task.agent.made
           /\ task.agent.text # <<>>
           /\ issue_comment.body = task.agent.text
           /\ Len(review_comments) = 1
           /\ review_comments[1].body = task.agent.text
           /\ review_run.summary = task.agent.text

C6_Witness ==
    /\ review_run.status = STATUS_DONE
    /\ issue_comment.body = <<"Fix", " ", "auth.py">>

\* C7: when a step inside the try block raised and the task has ended, the run
\* is failed, finished_at is set, error_message is not empty and the body of
\* the ReviewComment is the failure notice for that message, whether the edit
\* of the GitHub comment with the notice succeeded or raised.
C7_FailureBookkeeping ==
    (task.pc = "ended" /\ task.caught)
        => /\ review_run.status = STATUS_FAILED
           /\ review_run.finished_at # NoTime
           /\ review_run.error_message # <<>>
           /\ Len(review_comments) = 1
           /\ review_comments[1].body = FailureBody(review_run.error_message)
           /\ task.notice \in {"edited", "swallowed"}
           /\ task.notice = "edited" => issue_comment.body = review_comments[1].body

C7_Witness ==
    /\ task.pc = "ended"
    /\ task.caught
    /\ task.notice = "swallowed"
    /\ issue_comment.body = placeholder_body
    /\ review_run.status = STATUS_FAILED

\* the owner's row holds a key that is active and has a non-blank character
KeyUsable(row) ==
    /\ row.exists
    /\ row.is_active
    /\ \E i \in 1..Len(row.api_key) : ~IsWhitespace(row.api_key[i])

CredentialResolved ==
    task.pc \notin {"none", "queued", "placeholder", "comment", "credential"}

\* C8: with no owning user, or no active non-blank key of the owner, the task
\* goes to the except block from the credential step: it makes no token, PR
\* metadata or diff fetch, builds no snapshot, does not call the agent, and
\* ends with the run failed with the credential message; the run stays failed.
C8_MissingCredentialIsFatal ==
    (CredentialResolved /\ ~task.escaped
       /\ (review_run.owner = NoOwner \/ ~KeyUsable(task.key_row)))
        => /\ task.caught
           /\ task.calls = {}
           /\ task.snapshot = "none"
           /\ ~task.agent.made
           /\ task.pc \in {"h_edit", "h_save_comment", "h_save_run", "ended"}
           /\ task.pc = "ended"
                 => /\ review_run.status = STATUS_FAILED
                    /\ review_run.error_message \in {NoOwnerText, MissingKeyText}

C8_Witness ==
    /\ task.pc = "ended"
    /\ review_run.owner # NoOwner
    /\ task.key_row.is_active
    /\ task.key_row.api_key = <<" ">>
    /\ review_run.status = STATUS_FAILED
    /\ review_run.error_message = MissingKeyText

----------------------------------------------------------------------------
(* Properties of the two tasks, checked under SpecPipelines *)

Range(seq) == { seq[i] : i \in 1..Len(seq) }

\* the agent step of execution t comes next or the agent was called, and the
\* call had no working directory and no repo_index.md among its files
AgentRunsWithoutSnapshot(t) ==
    /\ t.pc = "agent" \/ t.agent.made
    /\ t.agent.made
          => /\ t.agent.cwd = NoDir
             /\ "repo_index.md" \notin Range(t.agent.files)
             /\ "repo_snapshot.md" \in Range(t.agent.files)

\* C9: when _prepare_repo_snapshot returned no directory, run_pr_review and
\* handle_chat_response_v2 go on to the agent call, made with no working
\* directory and without repo_index.md; such a run can end done.
C9_NoSnapshotIsContinuable ==
    /\ task.snapshot = "nodir" => AgentRunsWithoutSnapshot(task)
    /\ chat.snapshot = "nodir" => AgentRunsWithoutSnapshot(chat)

C9_Witness ==
    /\ task.snapshot = "nodir"
    /\ review_run.status = STATUS_DONE
    /\ issue_comment.body \in ReviewTexts
    /\ chat.snapshot = "nodir"
    /\ chat.pc = "ended"
    /\ ~chat.caught
    /\ Len(chat_messages) = 2

----------------------------------------------------------------------------
(* Properties of _prepare_repo_snapshot, checked under SpecSnapshot *)

GitFails == snap_in.git.fail_at # "none"
ZipFails == snap_in.zip.fail_at # "none"

SnapshotBasics(r) ==
    /\ ~r.raised
    /\ snap_in.head_sha = <<>>
          => r.repo_dir = NoDir /\ r.md = SkippedNote /\ r.attempts = <<>>
    /\ (snap_in.head_sha # <<>> /\ ~GitFails)
          => r.repo_dir.exists /\ r.repo_dir.files = Tree /\ r.attempts = <<"git">>
    /\ (snap_in.head_sha # <<>> /\ GitFails)
          => r.attempts = <<"git", "zipball">>
    /\ (snap_in.head_sha # <<>> /\ GitFails /\ ~ZipFails)
          => r.repo_dir.exists /\ r.repo_dir.files = Tree
    /\ (snap_in.head_sha # <<>> /\ GitFails /\ ZipFails)
          => /\ r.repo_dir = NoDir
             /\ r.md.kind = "failed"
             /\ r.md.repo = RepoFullName
             /\ r.md.ref = snap_in.head_sha

\* C10: _prepare_repo_snapshot does not raise; an empty head SHA gives no
\* directory and the note, with neither strategy attempted; a failed git
\* strategy is followed by the zipball; when both fail the result is no
\* directory and a summary with the repository, the ref and the message of
\* the zipball error, or that of the git error when the zipball's is blank;
\* otherwise the directory is returned.
C10_SnapshotOutcome ==
    snap_out.called
        => /\ SnapshotBasics(snap_out.result)
           /\ (snap_in.head_sha # <<>> /\ GitFails /\ ZipFails)
                 => /\ snap_out.result.md.error # <<>>
                    /\ snap_out.result.md.error =
                          IF Strip(snap_in.zip.msg) # <<>>
                          THEN Strip(snap_in.zip.msg)
                          ELSE Strip(_git_checkout_repo_at_sha(snap_in.git).error)

C10_Witness ==
    /\ snap_out.called
    /\ snap_in.head_sha # <<>>
    /\ snap_in.git.fail_at = "fetch"
    /\ snap_in.zip = [fail_at |-> "download", msg |-> <<>>]
    /\ snap_out.result.repo_dir = NoDir
    /\ snap_out.result.md.error = <<"fatal:", " ", "auth">>

\* C10 as stated: when both strategies fail the summary names the last error,
\* the one of the zipball strategy.
C10_NamesLastError ==
    snap_out.called
        => /\ SnapshotBasics(snap_out.result)
           /\ (snap_in.head_sha # <<>> /\ GitFails /\ ZipFails)
                 => snap_out.result.md.error = Strip(snap_in.zip.msg)

\* the temporary directories of the tasks that are inside their with block
OpenTmpDirs ==
    (IF task.pc = "agent" THEN {task.tmpdir} ELSE {})
        \cup (IF chat.pc = "agent" THEN {chat.tmpdir} ELSE {})

\* C11: the temporary directories that exist are exactly those of the tasks
\* inside their with block, a review and a chat task never hold the same one,
\* and the directory of a task that has left the block (agent returned, agent
\* raised, snapshot raised, a context file could not be written) or has ended
\* no longer exists.
C11_TempDirRemoved ==
    /\ tmp_dirs = OpenTmpDirs
    /\ (task.pc = "agent" /\ chat.pc = "agent") => task.tmpdir # chat.tmpdir
    /\ task.pc # "agent" => task.tmpdir \notin tmp_dirs
    /\ chat.pc # "agent" => chat.tmpdir \notin tmp_dirs

C11_Witness ==
    /\ task.pc = "ended"
    /\ task.caught
    /\ task.tmpdir \in TmpNames(ReviewTmpPrefix)
    /\ task.agent.made
    /\ chat.pc = "ended"
    /\ chat.caught
    /\ chat.tmpdir \in TmpNames(ChatTmpPrefix)
    /\ ~chat.agent.made
    /\ tmp_dirs = {}

-----------------------------------------------------------------------------
(* Properties of get_installation_token, checked under SpecToken *)

\* the n-th post has been made and handled
AttemptMade(n) ==
    \/ token_call.attempt > n
    \/ token_call.attempt = n /\ token_call.pc # "post"

RetryableFailure(r) ==
    \/ r.kind \in {"timeout", "network"}
    \/ r.kind = "response" /\ r.status \in {502, 503, 504}

\* C12: at most 3 posts are made; the post after the n-th is made only if the
\* n-th ended in 502/503/504, a timeout or a network error; the call returns
\* the token of the first post that got one, and an error response with any
\* other status ends the call at that post with an exception.
C12_BoundedRetries ==
    /\ token_call.attempt <= 3
    /\ Len(token_call.slept) = token_call.attempt - 1
    /\ \A n \in 1..3 :
          AttemptMade(n) =>
             LET r == token_call.responses[n]
             IN  /\ token_call.attempt > n => RetryableFailure(r)
                 /\ (r.kind = "response" /\ r.status < 400 /\ r.has_token
                        /\ r.token \notin {<<>>, <<" ">>})
                       => /\ token_call.attempt = n
                          /\ token_call.pc = "done"
                          /\ token_call.result.kind = "returned"
                          /\ token_call.result.token = r.token
                 /\ (r.kind = "response" /\ r.status >= 400
                        /\ r.status \notin {502, 503, 504})
                       => /\ token_call.attempt = n
                          /\ token_call.pc = "done"
                          /\ token_call.result.kind = "raised"
    /\ token_call.result.kind = "returned"
          => token_call.result.token \in {<<"ghs_abc">>, <<"ghs_xyz">>}

C12_Witness ==
    /\ token_call.pc = "done"
    /\ token_call.attempt = 3
    /\ token_call.responses[1].kind = "timeout"
    /\ token_call.responses[2].status = 503
    /\ token_call.result.kind = "returned"
    /\ token_call.result.token = <<"ghs_xyz">>
    /\ token_call.slept = <<1, 2>>

\* C13: when all 3 posts ended in 502/503/504, a timeout or a network error,
\* the call raises a RuntimeError of its own about creating the installation
\* token, and when the last failure was a timeout or a network error the
\* message names outbound HTTPS access to api.github.com:443.
C13_ExhaustedRaisesOwnError ==
    (/\ token_call.pc = "done"
     /\ token_call.attempt = 3
     /\ \A n \in 1..3 : RetryableFailure(token_call.responses[n]))
        => /\ token_call.result.kind = "raised"
           /\ token_call.result.exc = "RuntimeError"
           /\ token_call.result.msg \in {TimedOutMsg, NetworkFailedMsg, RequestFailedMsg}
           /\ token_call.responses[3].kind \in {"timeout", "network"}
                 => EgressHint \in Range(token_call.result.msg)

-----------------------------------------------------------------------------
(* Properties of run_opencode's reading of the output, checked under
   SpecOpencodeOutput *)

IsErrorEvent(line) == line.json = "object" /\ line.type = "error"
HasErrorEvent(stdout) == \E i \in 1..Len(stdout) : IsErrorEvent(stdout[i])

\* the texts of the recognized shapes of a line: message.content of an
\* assistant message, top-level content, top-level text, part.text
ShapeTexts(line) ==
    { t \in { IF line.assistant THEN line.msg_content ELSE <<>>,
              line.content, line.text, line.part_text } : t # <<>> }

\* a JSON event that carries one recognized shape, its text without
\* surrounding whitespace, or no recognized shape at all
PlainEvent(line) ==
    /\ line.json = "object"
    /\ ~IsErrorEvent(line)
    /\ line.msg_content # <<>> => line.assistant
    /\ Cardinality({ f \in {"msg_content", "content", "text", "part_text"} :
                        line[f] # <<>> }) <= 1
    /\ \A t \in ShapeTexts(line) : t = Strip(t)

RECURSIVE Fragments(_)
Fragments(stdout) ==
    IF stdout = <<>> THEN <<>>
    ELSE (IF ShapeTexts(Head(stdout)) = {} THEN <<>>
          ELSE <<CHOOSE t \in ShapeTexts(Head(stdout)) : TRUE>>)
         \o Fragments(Tail(stdout))

\* C14: for a stream of JSON events without an error event, each with at most
\* one recognized shape, of which there is at least one, run_opencode returns
\* the fragments in the order of the stream, joined by a blank line.
C14_ReturnsAllFragments ==
    (/\ oc_run.pc = "done"
     /\ \A i \in 1..Len(oc_run.stdout) : PlainEvent(oc_run.stdout[i])
     /\ Fragments(oc_run.stdout) # <<>>)
        => /\ oc_run.outcome.kind = "text"
           /\ oc_run.outcome.text = JoinChunks(Fragments(oc_run.stdout))

\* C15: when the stream has an error event, run_opencode raises with the
\* message of an error event of the stream (its name, or "OpenCode error",
\* when it has no message) and returns no text, whatever else the stream holds.
C15_ErrorEventWins ==
    (oc_run.pc = "done" /\ HasErrorEvent(oc_run.stdout))
        => /\ oc_run.outcome.kind = "error_event"
           /\ oc_run.outcome.text = <<>>
           /\ \E i \in 1..Len(oc_run.stdout) :
                 LET line == oc_run.stdout[i]
                 IN  /\ IsErrorEvent(line)
                     /\ oc_run.outcome.error =
                           IF line.err_message # <<>> THEN line.err_message
                           ELSE IF line.err_name # <<>> THEN line.err_name
                           ELSE <<"OpenCode error">>

NoStdoutAtAll(stdout) == \A i \in 1..Len(stdout) : stdout[i].json \notin {"object", "nonjson", "nondict"}
NoTextAnywhere(stdout) ==
    /\ ~NoStdoutAtAll(stdout)
    /\ \A i \in 1..Len(stdout) :
          stdout[i].json = "object" => (~IsErrorEvent(stdout[i]) /\ ShapeTexts(stdout[i]) = {})

\* the stripped stderr, or the end of it when it is longer than max_chars
StderrShown(stderr) ==
    LET s == Strip(stderr)
    IN  IF Len(s) <= CompactMaxChars THEN s
        ELSE LStrip(SubSeq(s, Len(s) - CompactMaxChars + 1, Len(s)))

\* C16 (amended): run_opencode raises when stdout is empty and when stdout
\* yields no fragment; the two messages begin differently, and each carries
\* the exit code and the stripped stderr, of which only the last max_chars
\* characters are kept when it is longer.
C16_NoOutputAndNoText ==
    oc_run.pc = "done"
        => /\ NoStdoutAtAll(oc_run.stdout) => oc_run.outcome.kind = "no_output"
           /\ NoTextAnywhere(oc_run.stdout) => oc_run.outcome.kind = "no_text"
           /\ oc_run.outcome.kind = "no_output"
                 => oc_run.outcome.head = "opencode produced no output"
           /\ oc_run.outcome.kind = "no_text"
                 => oc_run.outcome.head = "opencode returned no assistant text"
           /\ oc_run.outcome.kind \in {"no_output", "no_text"}
                 => /\ oc_run.outcome.exit = oc_run.returncode
                    /\ oc_run.outcome.text = <<>>
                    /\ IF Len(Strip(oc_run.stderr)) <= CompactMaxChars
                       THEN oc_run.outcome.stderr = StderrShown(oc_run.stderr)
                       ELSE /\ Contains(oc_run.outcome.stderr, StderrShown(oc_run.stderr))
                            /\ ~Contains(oc_run.outcome.stderr, Strip(oc_run.stderr))

C16_Witness ==
    /\ oc_run.pc = "done"
    /\ oc_run.outcome.kind = "no_text"
    /\ oc_run.returncode = 1
    /\ Len(oc_run.stdout) = MaxLines
    /\ Len(Strip(oc_run.stderr)) > CompactMaxChars

\* C16 as stated: both failures carry the exit code and the captured stderr.
C16_IncludesCapturedStderr ==
    (oc_run.pc = "done" /\ oc_run.outcome.kind \in {"no_output", "no_text"})
        => /\ oc_run.outcome.exit = oc_run.returncode
           /\ Contains(oc_run.outcome.stderr, Strip(oc_run.stderr))

\* C17: with the same stdout and stderr every exit code gives the outcome the
\* call had: the same text, or the same kind of failure with the same error
\* event message; the call fails only on an error event or for lack of text.
C17_ExitCodeNotAuthoritative ==
    oc_run.pc = "done"
        => /\ \A returncode \in {0, 1, 2} :
                 LET other == OutputOutcome(oc_run.stdout, oc_run.stderr, returncode)
                 IN  /\ other.kind = oc_run.outcome.kind
                     /\ other.text = oc_run.outcome.text
                     /\ other.error = oc_run.outcome.error
           /\ oc_run.outcome.kind = "text"
                 <=> /\ ~HasErrorEvent(SplitLines(oc_run.stdout))
                     /\ ParseEvents(SplitLines(oc_run.stdout), <<>>).chunks # <<>>

C17_Witness ==
    /\ oc_run.pc = "done"
    /\ oc_run.returncode = 1
    /\ oc_run.stderr = <<"boom", "\n">>
    /\ oc_run.outcome.kind = "text"
    /\ oc_run.outcome.text = <<"c1", "\n", "\n", "t1", "\n", "\n", "LGTM">>

\* the sequence with x put after its first p elements
InsertAt(s, p, x) == SubSeq(s, 1, p) \o <<x>> \o SubSeq(s, p + 1, Len(s))

\* a line that is not JSON, not a JSON object, or an object without a
\* recognized shape
Unrecognized(line) ==
    \/ line.json # "object"
    \/ ~IsErrorEvent(line) /\ ShapeTexts(line) = {} /\ line.msg_content = <<>>

-----------------------------------------------------------------------------
(* Properties of run_opencode's command line, checked under
   SpecOpencodeCommand *)

\* C19: in the argument vector of the started process the last argument is
\* the prompt, the one before it is "--", and before that come the
\* attachments in their order, each as "--file" followed by its path; the
\* first argument is the resolved executable.
C19_PromptAfterSeparator ==
    oc_cmd.started
        => LET args == oc_cmd.args
               n == Len(oc_cmd.files)
               last == Len(args)
           IN  /\ last >= 2 * n + 6
               /\ args[1] = oc_cmd.opencode_bin
               /\ args[last] = oc_cmd.message
               /\ args[last - 1] = "--"
               /\ \A i \in 1..n :
                     /\ args[last - 1 - 2 * (n - i + 1)] = "--file"
                     /\ args[last - 2 * (n - i + 1)] = oc_cmd.files[i]
               /\ \A j \in 1..(last - 2 - 2 * n) : args[j] \notin {"--", "--file"}

C19_Witness ==
    /\ oc_cmd.started
    /\ oc_cmd.message = "--file"
    /\ oc_cmd.files = <<"/tmp/ctx/pr.diff", "/tmp/ctx/repo_index.md">>
    /\ oc_cmd.args = <<"/opt/oc/opencode", "run", "--print-logs", "--log-level", "DEBUG",
                       "--format", "json", "--file", "/tmp/ctx/pr.diff",
                       "--file", "/tmp/ctx/repo_index.md", "--", "--file">>

\* the override: OPENCODE_BIN of the env argument, else of the process, unless
\* it is the default name
Override ==
    LET set == IF oc_cmd.env_bin # "" THEN oc_cmd.env_bin ELSE oc_cmd.os_bin
    IN  IF set = "opencode" THEN "" ELSE set

\* the executable files of the given name in the directories of PATH, in the
\* order of PATH
OnPath(name) ==
    { i \in 1..Len(oc_cmd.path) : (oc_cmd.path[i] \o "/" \o name) \in oc_cmd.exec_files }
FirstOnPath(name) ==
    LET i == CHOOSE k \in OnPath(name) : \A m \in OnPath(name) : k <= m
    IN  oc_cmd.path[i] \o "/" \o name

\* the executable an override names: the path itself, or the name looked up
\* on PATH; "" when there is none
OverrideTarget ==
    IF Override \in {"/opt/oc/opencode"}
    THEN (IF Override \in oc_cmd.exec_files THEN Override ELSE "")
    ELSE (IF OnPath(Override) # {} THEN FirstOnPath(Override) ELSE "")

-----------------------------------------------------------------------------
(* Properties of fetch_pull_request_diff, checked under SpecDiff *)

Rejected(response) == response.status \in {406, 415, 501}

\* the records of the listing that name a file, in the order of the listing
NamedFiles == SelectSeq(diff_fetch.listing.files, LAMBDA f : f.filename # "")

\* the first line of the block of a file
BlockHeader(f) ==
    "diff --git a/"
        \o (IF f.status = "renamed" /\ f.previous_filename # ""
            THEN f.previous_filename ELSE f.filename)
        \o " b/" \o f.filename
IsBlockHeader(line) == \E f \in PrFiles : f.filename # "" /\ line = BlockHeader(f)

\* the result is the note naming the status, an empty line, and blocks whose
\* headers are those of the named files in the order of the listing
IsFallbackDiff(result, status) ==
    /\ result.kind = "text"
    /\ Len(result.lines) >= 3
    /\ result.lines[1] = FallbackNote(status)
    /\ status \in {406, 415, 501, 200}
    /\ result.lines[2] = ""
    /\ SelectSeq(result.lines, IsBlockHeader)
          = [i \in 1..Len(NamedFiles) |-> BlockHeader(NamedFiles[i])]

\* C21 (amended): when the diff and the patch representation are both
\* answered with 406, 415 or 501 and the file list holds a record with a
\* filename, the call returns the fallback diff: the note naming the status
\* of the patch request, then one diff --git block for every record with a
\* filename, in the order of the file list; with no such record it raises.
C21_FallbackDiff ==
    (/\ diff_fetch.pc = "done"
     /\ Rejected(diff_fetch.diff)
     /\ Rejected(diff_fetch.patch)
     /\ ~diff_fetch.listing.raised)
        => IF NamedFiles # <<>>
           THEN IsFallbackDiff(diff_fetch.result, diff_fetch.patch.status)
           ELSE /\ diff_fetch.result.kind = "raised"
                /\ diff_fetch.result.status = diff_fetch.patch.status

C21_Witness ==
    /\ diff_fetch.pc = "done"
    /\ diff_fetch.diff.status = 406
    /\ diff_fetch.patch.status = 415
    /\ diff_fetch.listing.files
          = <<PrFile("b.py", "renamed", "a.py", <<>>),
              PrFile("new.py", "added", "", <<"@@ -0,0 +1 @@", "+x = 1">>)>>
    /\ diff_fetch.result.lines
          = <<FallbackNote(415), "",
              "diff --git a/a.py b/b.py", "rename from a.py", "rename to b.py",
              "--- a/a.py", "+++ b/b.py", NoPatchLine, "",
              "diff --git a/new.py b/new.py", "--- /dev/null", "+++ b/new.py",
              "@@ -0,0 +1 @@", "+x = 1">>

\* C21 as stated: whenever the diff representation is answered with 406, 415
\* or 501 and the file list is delivered, the call returns the fallback diff.
C21_RejectedDiffGivesFallback ==
    (/\ diff_fetch.pc = "done"
     /\ Rejected(diff_fetch.diff)
     /\ ~diff_fetch.listing.raised)
        => \E status \in {406, 415, 501} : IsFallbackDiff(diff_fetch.result, status)

----------------------------------------------------------------------------
(* Properties of _extract_zipball_to_repo_dir, checked under SpecExtract *)

\* the entry's path under the workspace root resolves outside the root
OutsideRoot(info, prefix) == ~IsRelativeToRoot(Resolve(RelName(info.filename, prefix)))
\* the entry names a file of the workspace
NamesFile(info, prefix) ==
    /\ info.filename # <<>>
    /\ ~EndsWithSlash(info.filename)
    /\ RelName(info.filename, prefix) \notin { <<>>, <<"">> }
InsideEntries(infolist, prefix) ==
    SelectSeq(infolist, LAMBDA info : ~(NamesFile(info, prefix) /\ OutsideRoot(info, prefix)))

\* C22: the extraction never writes outside the workspace root, and an entry
\* that resolves outside the root is skipped without changing what is
\* extracted of the other entries: the files are those the archive without
\* the outside entries gives.
C22_OutsideEntriesOnlySkipped ==
    zip_extract.pc = "done" =>
        /\ zip_extract.escaped = {}
        /\ zip_extract.files =
              Extraction(InsideEntries(zip_extract.infolist, zip_extract.prefix)).files

RECURSIVE SumSizes(_)
SumSizes(files) ==
    IF files = {} THEN 0
    ELSE LET f == CHOOSE x \in files : TRUE
         IN  f.size + SumSizes(files \ { f })
RECURSIVE RunningTotal(_, _, _)
RunningTotal(infolist, prefix, k) ==
    IF k = 0 THEN 0
    ELSE RunningTotal(infolist, prefix, k - 1)
            + (IF NamesFile(infolist[k], prefix) THEN infolist[k].file_size ELSE 0)
\* the entries at which the running total is over the budget
OverAt(infolist, prefix) ==
    { k \in 1..Len(infolist) :
        /\ NamesFile(infolist[k], prefix)
        /\ RunningTotal(infolist, prefix, k) > MaxTotalBytes }

\* C23: the files extracted never total more than the byte budget; when the
\* call has ended, the first entry that takes the running total over the
\* budget and every later entry were not written, the loop was left by break,
\* and the files of the entries written before are there.
C23_BudgetStopsExtraction ==
    /\ SumSizes(zip_extract.files) <= MaxTotalBytes
    /\ zip_extract.pc = "done" =>
          LET infolist == zip_extract.infolist
              prefix == zip_extract.prefix
              over == OverAt(infolist, prefix)
          IN  /\ zip_extract.broke <=> over # {}
              /\ \A k \in over : \A j \in zip_extract.wrote : j < k
              /\ \A j \in zip_extract.wrote :
                    \E f \in zip_extract.files :
                        f.path = Resolve(RelName(infolist[j].filename, prefix)).path
C23_Witness ==
    /\ zip_extract.pc = "done"
    /\ zip_extract.broke
    /\ zip_extract.wrote # {}
    /\ zip_extract.i < Len(zip_extract.infolist)

----------------------------------------------------------------------------
(* Properties of _render_repo_index_markdown, checked under SpecIndex *)

\* the file lies under a directory with an ignored name
UnderIgnored(path) == \E d \in IgnoredDirs : d \in Range(DirsOf(path))
NonIgnored(tree) == { path \in tree : ~UnderIgnored(path) }
\* the paths of the index, in the order of its lines
ListedPaths ==
    LET path_lines == SelectSeq(repo_index.lines, LAMBDA l : l.kind = "path")
    IN  [k \in 1..Len(path_lines) |-> path_lines[k].path]
HasTruncationNote ==
    \E k \in 1..Len(repo_index.lines) :
        repo_index.lines[k] = IndexLine("truncated", <<>>, MaxPaths)

----------------------------------------------------------------------------
(* Properties of the diff excerpt, checked under SpecReviewContext *)

TruncationNote ==
    "NOTE: Diff truncated to " \o ToString(MaxDiffChars) \o " characters for review."
PromptHasNote == TruncationNote \in Range(review_ctx.agent.message)

\* C25: the agent gets as pull_request.diff the first max_diff_chars
\* characters of a fetched diff that is longer than max_diff_chars, with the
\* truncation note in the prompt; a diff of at most max_diff_chars characters
\* is attached unchanged and the prompt has no note.
C25_DiffExcerpt ==
    review_ctx.agent.made =>
        LET fetched == review_ctx.fetched
            excerpt == review_ctx.agent.pull_request_diff
        IN  IF Len(fetched) > MaxDiffChars
            THEN /\ Len(excerpt) = MaxDiffChars
                 /\ \A k \in 1..MaxDiffChars : excerpt[k] = fetched[k]
                 /\ PromptHasNote
            ELSE /\ excerpt = fetched
                 /\ ~PromptHasNote
C25_Witness ==
    /\ review_ctx.agent.made
    /\ Len(review_ctx.fetched) > MaxDiffChars
    /\ review_ctx.fetched[1] # review_ctx.fetched[Len(review_ctx.fetched)]
    /\ PromptHasNote

----------------------------------------------------------------------------
(* Properties of the chat task, checked under SpecChat *)

RowsWithId(id) ==
    { i \in 1..Len(chat_messages) : chat_messages[i].github_comment_id = id }
\* the reply the last execution posted and recorded
RepliedText == Or(Strip(chat.agent.text), NoResponseText)
IsFailureComment(comment) == comment.body # <<>> /\ comment.body[1] = "Reply failed."

\* C26: there is never more than one ChatMessage row with the same external
\* comment id; when the task has posted a reply under an id that already has
\* a row and has returned, that one row holds the new reply.
C26_OneRowPerCommentId ==
    /\ \A i, j \in 1..Len(chat_messages) :
          chat_messages[i].github_comment_id = chat_messages[j].github_comment_id => i = j
    /\ (chat.pc = "ended" /\ ~chat.caught) =>
          \E i \in RowsWithId(ReplyCommentId) :
              /\ chat_messages[i].body = RepliedText
              /\ chat_messages[i].author = "codereview"
C26_Witness ==
    /\ chat.pc = "ended"
    /\ ~chat.caught
    /\ chat.runs = 1
    /\ Len(pr_comments) = 2
    /\ ~IsFailureComment(pr_comments[1])
    /\ pr_comments[1].id = pr_comments[2].id
    /\ pr_comments[1].body # pr_comments[2].body
    /\ Cardinality(RowsWithId(ReplyCommentId)) = 1

----------------------------------------------------------------------------
(* Properties of _render_conversation_markdown, checked under SpecTranscript *)

\* the ids of the messages of the transcript, in the order of its lines
ShownIds ==
    LET bodies == SelectSeq(transcript.lines, LAMBDA l : l.kind = "heading")
    IN  [k \in 1..Len(bodies) |-> bodies[k].id]
Trigger == transcript.table[transcript.upto]
\* the rows the transcript may show
Eligible ==
    { k \in 1..Len(transcript.table) :
        /\ transcript.table[k].pull_request = ThisPullRequest
        /\ ~transcript.table[k].is_hidden
        /\ transcript.table[k].created_at <= Trigger.created_at }
\* only eligible rows, at most the limit, the most recent ones, oldest first
TranscriptWindow ==
    LET shown == ShownIds
    IN  /\ Range(shown) \subseteq Eligible
        /\ Len(shown) <= ConversationLimit
        /\ Len(shown) = IF Cardinality(Eligible) < ConversationLimit
                        THEN Cardinality(Eligible) ELSE ConversationLimit
        /\ \A k \in Eligible \ Range(shown) : \A j \in Range(shown) : k < j
        /\ \A i, j \in 1..Len(shown) :
              i < j => transcript.table[shown[i]].created_at
                          < transcript.table[shown[j]].created_at

\* C28: the transcript shows only messages of the pull request that are not
\* hidden and were created no later than the triggering message, the most
\* recent `limit` of them at most, oldest first; the triggering message is
\* among them when it is not hidden.
C28_TranscriptOfVisible ==
    transcript.pc = "done" =>
        /\ TranscriptWindow
        /\ ~Trigger.is_hidden => Trigger.id \in Range(ShownIds)
C28_Witness ==
    /\ transcript.pc = "done"
    /\ Cardinality(Eligible) > ConversationLimit
    /\ ~Trigger.is_hidden
    /\ Trigger.id \in Range(ShownIds)
    /\ transcript.upto < Len(transcript.table)
    /\ transcript.table[Len(transcript.table)].pull_request = ThisPullRequest
    /\ ~transcript.table[Len(transcript.table)].is_hidden

\* C28 as stated: the transcript is that window and always includes the
\* triggering message.
C28_AlwaysHasTrigger ==
    transcript.pc = "done" =>
        /\ TranscriptWindow
        /\ Trigger.id \in Range(ShownIds)

----------------------------------------------------------------------------
(* Properties of _mark_stale_review_runs, checked under SpecSweep *)

\* queued for more than an hour, or running for more than two hours counted
\* from started_at, or from created_at when started_at is unset
IsStaleAt(row, t) ==
    \/ row.status = STATUS_QUEUED /\ t - row.created_at > StaleQueuedHours
    \/ /\ row.status = STATUS_RUNNING
       /\ t - (IF row.started_at # NoTime THEN row.started_at ELSE row.created_at)
             > StaleRunningHours
ForceFailed(row, after, t) ==
    /\ after.status = STATUS_FAILED
    /\ after.error_message # <<>>
    /\ after.finished_at = t
    /\ after = [row EXCEPT !.status = after.status, !.finished_at = after.finished_at,
                           !.error_message = after.error_message]

\* C29: the sweep of a user at time now force-fails, with an error message,
\* every run of that user that is queued for more than one hour or running
\* for more than two hours, and leaves every other run as it was.
C29_SweepOfOwner ==
    sweep_call.pc = "done" =>
        IF sweep_call.row.owner = sweep_call.owner /\ IsStaleAt(sweep_call.row, sweep_call.now)
        THEN ForceFailed(sweep_call.row, sweep_call.after, sweep_call.now)
        ELSE sweep_call.after = sweep_call.row
C29_Witness ==
    /\ sweep_call.pc = "done"
    /\ sweep_call.row.owner = sweep_call.owner
    /\ sweep_call.row.status = STATUS_RUNNING
    /\ sweep_call.row.started_at # NoTime
    /\ IsStaleAt(sweep_call.row, sweep_call.now)
    /\ sweep_call.after.status = STATUS_FAILED

\* C29 as stated: every stale run is force-failed by the sweep, whoever the
\* sweeping user is.
C29_SweepOfAnyRun ==
    sweep_call.pc = "done" =>
        IF IsStaleAt(sweep_call.row, sweep_call.now)
        THEN ForceFailed(sweep_call.row, sweep_call.after, sweep_call.now)
        ELSE sweep_call.after = sweep_call.row

----------------------------------------------------------------------------
(* Ownership of the run row, checked under Spec *)

RunOutcomeFields(row) == <<row.status, row.finished_at, row.summary, row.error_message>>

\* C30: once the row of a run exists, its status, finished_at, summary and
\* error_message are changed only by a step of the run_pr_review execution
\* of that run.
C30_OnlyOwningTaskWrites ==
    [][ (review_run.exists /\ RunOutcomeFields(review_run') # RunOutcomeFields(review_run))
        => task' # task ]_vars

----------------------------------------------------------------------------
(* Liveness of a run, checked under SpecLive *)

\* C31: a run of an installation whose app belongs to a user becomes done or
\* failed, whatever the worker does, when time passes and that user's
\* dashboard requests keep sweeping.
C31_OwnedRunEnds ==
    (review_run.exists /\ review_run.owner \in Users) ~> (review_run.status \in Terminal)
C31_Witness ==
    /\ review_run.exists
    /\ review_run.owner \in Users
    /\ task.escaped
    /\ review_run.status = STATUS_FAILED
    /\ review_run.error_message = StaleRunningText

\* C31 as stated: every run that was enqueued becomes done or failed.
C31_EveryRunEnds ==
    review_run.exists ~> (review_run.status \in Terminal)

----------------------------------------------------------------------------
(* Properties of the webhook view, checked under SpecWebhook *)

\* a delivery is accepted exactly when its header is "sha256=" followed by the
\* digest of its body under the secret; any other leaves no row and no task
AcceptedIffSigned ==
    webhook.pc = "done" =>
        /\ webhook.verified = "True"
              <=> webhook.signature
                      = <<"sha256", "=", HexDigest(webhook.secret, webhook.delivery.body)>>
        /\ webhook.verified # "True" => webhook.records = {} /\ webhook.queued = {}

\* C32: verification answers true for the header "sha256=" followed by the
\* hex HMAC-SHA256 of the body under the app's secret and false for every
\* other header, the missing one included; a delivery that is not verified
\* creates no row and enqueues no task.
C32_SignatureVerified ==
    webhook.pc = "done" =>
        /\ webhook.verified =
              (IF webhook.signature
                     = <<"sha256", "=", HexDigest(webhook.secret, webhook.delivery.body)>>
               THEN "True" ELSE "False")
        /\ webhook.verified # "True" => webhook.records = {} /\ webhook.queued = {}

----------------------------------------------------------------------------
(* Properties of add_reaction_to_issue_comment, checked under SpecReaction *)

\* C33: a call whose request was answered with 422, the status for a
\* reaction that exists already, returns like one answered with 2xx, so
\* that reacting a second time ends like the first; every other error
\* status, 409 included, raises.
C33_AlreadyReactedIsSuccess ==
    \A k \in 1..Len(reaction.calls) :
        LET c == reaction.calls[k]
        IN  c.sent =>
               /\ c.status \in {200, 201, 422} => c.outcome = "returned"
               /\ c.status \notin {200, 201, 422} => c.outcome = "raised"
C33_Witness ==
    /\ Len(reaction.calls) = 2
    /\ reaction.calls[1].comment_id = reaction.calls[2].comment_id
    /\ reaction.calls[1].content = reaction.calls[2].content
    /\ reaction.calls[1].status = 201
    /\ reaction.calls[2].status = 422
    /\ reaction.calls[1].outcome = "returned"
    /\ reaction.calls[2].outcome = "returned"
    /\ Cardinality(reaction.on_server) = 1

\* C33 as stated: an answer of 409 or of 422 is a success.
C33_409Or422IsSuccess ==
    \A k \in 1..Len(reaction.calls) :
        reaction.calls[k].sent /\ reaction.calls[k].status \in {409, 422}
            => reaction.calls[k].outcome = "returned"

----------------------------------------------------------------------------
(* Properties of run_opencode's data home, checked under SpecOpencodeAuth *)

\* C34: with auth given, the process is started with XDG_DATA_HOME naming a
\* directory made for this call, which holds the credentials in
\* opencode/auth.json with mode 0600; when the call has returned or raised,
\* by whichever way, the directory and the file are gone.
C34_AuthFileOnlyDuringCall ==
    oc_auth.auth.given =>
        /\ oc_auth.launched.made =>
              /\ oc_auth.launched.xdg = oc_auth.auth_home
              /\ oc_auth.auth_home \in AuthDirNames \ oc_auth.before
              /\ oc_auth.launched.auth_file
                    = [exists |-> TRUE, mode |-> "0600", key |-> oc_auth.auth.key]
        /\ oc_auth.pc = "done" =>
              /\ oc_auth.dirs = oc_auth.before
              /\ \A f \in oc_auth.files : f.key # oc_auth.auth.key
C34_Witness ==
    /\ oc_auth.auth.given
    /\ oc_auth.pc = "done"
    /\ oc_auth.launched.made
    /\ oc_auth.result = "raised"
    /\ oc_auth.error = "opencode timed out"
    /\ oc_auth.before # {}

----------------------------------------------------------------------------
(* The configured executable, checked under SpecOpencodeCommand *)

\* C35: when OPENCODE_BIN, of the env argument or else of the process,
\* names a path that is no executable file, run_opencode raises an error
\* whose message contains "not found" and "OPENCODE_BIN"; no other
\* location is tried and no process is started.
C35_MissingOverrideRaises ==
    LET override == IF oc_cmd.env_bin # "" THEN oc_cmd.env_bin ELSE oc_cmd.os_bin
    IN  (/\ oc_cmd.pc \notin {"idle", "resolve"}
         /\ override # ""
         /\ HasSlash(override)
         /\ override \notin oc_cmd.exec_files)
            => /\ oc_cmd.pc = "raised"
               /\ InText("not found", oc_cmd.error)
               /\ InText("OPENCODE_BIN", oc_cmd.error)
               /\ oc_cmd.opencode_bin = ""
               /\ ~oc_cmd.started
C35_Witness ==
    /\ oc_cmd.pc = "raised"
    /\ oc_cmd.env_bin = "/opt/oc/opencode"
    /\ "/opt/oc/opencode" \notin oc_cmd.exec_files
    /\ "/usr/bin/opencode" \in oc_cmd.exec_files
    /\ "/home/u/bin/opencode" \in oc_cmd.exec_files
    /\ oc_cmd.path = <<"/home/u/bin", "/usr/bin">>
    /\ InText("not found", oc_cmd.error)

----------------------------------------------------------------------------
(* The agent call of the chat task, checked under SpecChat *)

\* C36: the one run_opencode call of handle_chat_response_v2 gets the
\* owner's active stored key as the auth argument
\* {"zai-coding-plan": {"type": "api", "key": key}} and the attachments
\* pull_request.md, conversation.md, latest_review_summary.md,
\* pull_request.diff, repo_snapshot.md and, with a snapshot, repo_index.md.
C36_KeyHandedAsAuth ==
    chat.agent.made =>
        /\ chat.agent.auth = [given |-> TRUE, provider |-> "zai-coding-plan",
                              type |-> "api", key |-> Strip(chat.key_row.api_key)]
        /\ chat.key_row.exists /\ chat.key_row.is_active
        /\ chat.agent.files =
              <<"pull_request.md", "conversation.md", "latest_review_summary.md",
                "pull_request.diff", "repo_snapshot.md">>
              \o (IF chat.agent.cwd.exists THEN <<"repo_index.md">> ELSE <<>>)

\* what the call gets instead: the key in the environment variable
\* ZAI_API_KEY, no auth argument, and the attachments named above
KeyHandedInEnv ==
    chat.agent.made =>
        /\ chat.agent.auth = NoAuth
        /\ chat.agent.env = { [name |-> "ZAI_API_KEY", value |-> Strip(chat.key_row.api_key)] }
        /\ chat.key_row.exists /\ chat.key_row.is_active
        /\ chat.agent.files =
              <<"pull_request.md", "conversation.md", "latest_review_summary.md",
                "pull_request.diff", "repo_snapshot.md">>
              \o (IF chat.agent.cwd.exists THEN <<"repo_index.md">> ELSE <<>>)

----------------------------------------------------------------------------
(* The negotiation of fetch_pull_request_diff, checked under SpecDiff *)

\* the response sends the call on to the next representation
Unusable(response) ==
    Rejected(response) \/ (response.status < 400 /\ response.json)
\* a 2xx response with a body that is not JSON
Textual(response) == response.status < 400 /\ ~response.json
OtherError(response) == response.status >= 400 /\ ~Rejected(response)

\* C37: the file list is requested only after the diff and the patch
\* representation were each answered with 406, 415 or 501 or with JSON; the
\* first textual 2xx body is the result as it came; any other error status
\* is raised at once, with no further request; a file list that renders to
\* no block ends in a raise.
C37_Negotiation ==
    diff_fetch.pc = "done" =>
        LET d == diff_fetch.diff
            p == diff_fetch.patch
        IN  /\ (\E k \in 1..Len(diff_fetch.requested) : diff_fetch.requested[k] = "files")
                  => Unusable(d) /\ Unusable(p)
            /\ Textual(d) =>
                  /\ diff_fetch.result = DiffReturned(d.text)
                  /\ diff_fetch.requested = <<"diff">>
            /\ OtherError(d) =>
                  /\ diff_fetch.result = StatusRaised(d.status)
                  /\ diff_fetch.requested = <<"diff">>
            /\ Unusable(d) /\ Textual(p) =>
                  /\ diff_fetch.result = DiffReturned(p.text)
                  /\ diff_fetch.requested = <<"diff", "patch">>
            /\ Unusable(d) /\ OtherError(p) =>
                  /\ diff_fetch.result = StatusRaised(p.status)
                  /\ diff_fetch.requested = <<"diff", "patch">>
            /\ Unusable(d) /\ Unusable(p) =>
                  /\ diff_fetch.requested = <<"diff", "patch", "files">>
                  /\ (~diff_fetch.listing.raised /\ NamedFiles = <<>>)
                        => diff_fetch.result.kind = "raised"
C37_Witness ==
    /\ diff_fetch.pc = "done"
    /\ diff_fetch.diff = Representation(200, TRUE, JsonBody)
    /\ diff_fetch.patch.status = 404
    /\ diff_fetch.listing.files # <<>>
    /\ diff_fetch.requested = <<"diff", "patch">>
    /\ diff_fetch.result = StatusRaised(404)

----------------------------------------------------------------------------
(* Properties of list_pull_request_files, checked under SpecPrFiles *)

\* the record at i comes before the record at j in the server's order
Precedes(a, b) == a.page < b.page \/ (a.page = b.page /\ a.place < b.place)

\* at most limit records, in the order of the server; page n is asked for
\* in the n-th request; the loop goes on only below the limit and after a
\* page of at least per_page elements, and ends with the first such state
PagesUpToLimit ==
    /\ Len(pr_files.files) <= pr_files.limit
    /\ pr_files.requests < MaxPage =>
          /\ \A i, j \in 1..Len(pr_files.files) :
                i < j => Precedes(pr_files.files[i], pr_files.files[j])
          /\ pr_files.pc = "loop" => pr_files.page = pr_files.requests + 1
    /\ (pr_files.pc = "loop" /\ pr_files.requests > 0) =>
          /\ Len(pr_files.files) < pr_files.limit
          /\ pr_files.last.list
          /\ Len(pr_files.last.items) >= PerPage
    /\ pr_files.pc = "done" =>
          \/ Len(pr_files.files) = pr_files.limit
          \/ ~pr_files.last.list
          \/ Len(pr_files.last.items) < PerPage

\* when every page that is a list holds records only, the call comes to an end
EndsWhenPagesHoldRecords ==
    [](\A k \in 1..Len(pr_files.last.items) : pr_files.last.items[k] = "record")
        => <>(pr_files.pc \in {"done", "raised"})

\* C38: the call collects at most limit records in the server's order, page
\* after page, stops at the limit or at an empty or short page, and for
\* every behaviour of the server it comes to an end.
C38_PagesEnd ==
    []PagesUpToLimit /\ <>(pr_files.pc \in {"done", "raised"})

----------------------------------------------------------------------------
(* The two strategies of a snapshot, checked under SpecSnapshot *)

\* C39: when a git step fails, what git wrote into the snapshot directory is
\* removed before the zipball is extracted: a returned snapshot holds the
\* working tree as one strategy alone made it, without .git and without the
\* files of a checkout that failed, and when the zipball fails too no
\* directory is returned.
C39_OneStrategyOnly ==
    snap_out.called =>
        LET r == snap_out.result
            git_failed == snap_in.git.fail_at # "none"
            zip_failed == snap_in.zip.fail_at # "none"
        IN  /\ r.repo_dir.exists =>
                  /\ r.repo_dir.files = Tree
                  /\ r.attempts = IF git_failed THEN <<"git", "zipball">> ELSE <<"git">>
                  /\ r.md.method = IF git_failed THEN "zipball (GitHub API)"
                                   ELSE "git (shallow fetch depth=1)"
            /\ (snap_in.head_sha # <<>> /\ git_failed /\ zip_failed) =>
                  /\ r.repo_dir = NoDir
                  /\ r.md.kind = "failed"
            /\ (snap_in.head_sha # <<>> /\ ~(git_failed /\ zip_failed)) => r.repo_dir.exists
C39_Witness ==
    /\ snap_out.called
    /\ snap_in.git.fail_at = "checkout"
    /\ GitFilesAfter("checkout", TRUE) = {".git", "README.md"}
    /\ snap_in.zip.fail_at = "none"
    /\ snap_out.result.repo_dir = Dir(Tree)
    /\ snap_out.result.attempts = <<"git", "zipball">>

----------------------------------------------------------------------------
(* The comments of one execution of the chat task, checked under SpecChat *)

\* C40: an execution of handle_chat_response_v2 that has posted the reply
\* does not post the failure notice as well, whichever step fails.
C40_ReplyOrNotice ==
    ~("reply" \in chat.calls /\ chat.notice = "posted")

====
